---- MODULE Spec2Model ----
(***************************************************************************)
(* The repair loop of TogetherCodeFixAgent (src/src/agent.py) and the      *)
(* verifier CodeExecutor (src/src/executor.py).                            *)
(*                                                                         *)
(* Source text is a sequence of tokens: a token is one whitespace          *)
(* character (" " or "\n") or one Python program written without           *)
(* surrounding whitespace.  Python's None is the empty tuple and a         *)
(* present value v is <<v>>, so `x is None` is x = <<>>.                    *)
(***************************************************************************)
EXTENDS Integers, Sequences, FiniteSets, TLC

VARIABLES
    pc,                   \* position of the caller / of fix_code
    buggy_code,           \* fix_code argument
    max_iterations,       \* self.max_iterations
    g_test_cases,         \* module global _test_cases
    g_previous_code,      \* module global _previous_code (None or <<code>>)
    logs,                 \* self.observer.logs (module global _observer is this observer)
    current_client_index, \* self.current_client_index
    messages,             \* local `messages` of fix_code
    iteration_count,      \* loop variable of the iteration loop
    retry_attempt,        \* loop variable of the outer retry loop
    api_attempt,          \* loop variable of the inner retry loop
    temperature,          \* local `temperature` (in tenths)
    response,             \* local `response` (None or <<assistant message>>)
    tc_index,             \* index of the tool call being processed
    tool_was_called,      \* local `tool_was_called`
    final_code,           \* local `final_code` (None or <<code>>)
    consecutive_failures, \* local `consecutive_failures`
    tool_result,          \* verdict of the last run_code_tool call (None or a one-element sequence)
    exec_result,          \* outcome of the last execute_code call (None or <<outcome>>)
    outcome,              \* how fix_code ended: "" while running
    returned,             \* value returned by fix_code (None or <<code>>)
    service,              \* the responses the external service may give in this session
    service_calls,        \* number of chat.completions.create calls of the session
    executions,           \* number of execute_code calls of the session
    trail,                \* per run_code invocation handled: the code submitted and what came back
    verbose,              \* self.verbose
    g_observer,           \* module global _observer is set (TRUE) or None (FALSE)
    glitches,             \* transient failures of the service so far in the session
    outage,               \* the service is down: every call from now on fails
    escaped,              \* class of the exception that left fix_code, "" when none did
    clients,              \* self.clients: one client per configured key
    dispensed,            \* what get_next_client has returned so far, in order
    session_no,           \* number of fix_code calls made on the agent so far
    callers,              \* per thread inside get_next_client: its position and locals
    rivals,               \* per thread inside fix_code: its task, observer and submissions
    g_owner,              \* the thread whose fix_code assigned the module globals last
    summary,              \* what get_summary returned last (None or <<summary>>)
    results               \* evaluate_agent's results: passed, failed, details, and whether it still runs

vars == <<pc, buggy_code, max_iterations, g_test_cases, g_previous_code, logs,
          current_client_index, messages, iteration_count, retry_attempt,
          api_attempt, temperature, response, tc_index, tool_was_called,
          final_code, consecutive_failures, tool_result, exec_result, outcome,
          returned, service, service_calls, executions, trail, verbose,
          g_observer, glitches, outage, escaped, clients, dispensed, session_no,
          callers, rivals, g_owner, summary, results>>

\* eval_humanevalfix.py lines 72-77: the results evaluate_agent starts with
\* (total left out; at is "running" until an exception leaves evaluate_agent)
NoResults == [passed |-> 0, failed |-> 0, details |-> <<>>, at |-> "running"]

\* the state of threads other than the one the sequential specifications follow
concurrent == <<callers, rivals, g_owner>>

None == <<>>
Some(x) == <<x>>

(***************************************************************************)
(* Source text.                                                            *)
(***************************************************************************)
Whitespace == {" ", "\n"}

MINUS  == "def add(a,b): return a-b"
PLUS   == "def add(a,b): return a+b"
NONE   == "def add(a,b): return None"
NOFUNC == "x=1"
FAULT  == "raise ValueError('boom')"
EXIT   == "raise SystemExit"
BADSYN == "def add(a,b) return"
RETOUT == "return 1"
LOOP   == "while True: pass"
OPEN   == "open('/etc/passwd')"
IMPORT == "import os"
METHOD == "class A:\n    def len(self): return 0"

Programs == {MINUS, PLUS, NONE, NOFUNC, FAULT, EXIT, BADSYN, RETOUT, LOOP, OPEN,
             IMPORT, METHOD}

\* number of characters of a token
TokLen(tok) ==
    CASE tok \in Whitespace -> 1
      [] tok = MINUS  -> 24
      [] tok = PLUS   -> 24
      [] tok = NONE   -> 25
      [] tok = NOFUNC -> 3
      [] tok = FAULT  -> 24
      [] tok = EXIT   -> 16
      [] tok = BADSYN -> 19
      [] tok = RETOUT -> 8
      [] tok = LOOP   -> 16
      [] tok = OPEN   -> 19
      [] tok = IMPORT -> 9
      [] tok = METHOD -> 36

RECURSIVE len(_)
len(s) == IF s = <<>> THEN 0 ELSE TokLen(Head(s)) + len(Tail(s))

RECURSIVE lstrip(_)
lstrip(s) ==
    IF s # <<>> /\ Head(s) \in Whitespace THEN lstrip(Tail(s)) ELSE s

RECURSIVE rstrip(_)
rstrip(s) ==
    IF s # <<>> /\ s[Len(s)] \in Whitespace
    THEN rstrip(SubSeq(s, 1, Len(s) - 1)) ELSE s

\* str.strip()
strip(s) == rstrip(lstrip(s))

\* the whitespace run in front of the program
Leading(s) == SubSeq(s, 1, Len(s) - Len(lstrip(s)))

\* the program of a text: "" for an empty or blank text
Program(s) == IF strip(s) = <<>> THEN "" ELSE Head(strip(s))

(***************************************************************************)
(* Python, as far as the verifier observes it.                             *)
(***************************************************************************)
\* ast.parse(code): TRUE when it raises no SyntaxError
ast_parse(code) ==
    /\ Program(code) # BADSYN
    /\ ~ (Program(code) # "" /\ Leading(code) # <<>>
          /\ Leading(code)[Len(Leading(code))] = " ")

\* compile(code, '<string>', 'exec'): TRUE when it raises no SyntaxError
compile_ok(code) == ast_parse(code) /\ Program(code) # RETOUT

\* lines 54-73: the names the namespace dictionary binds besides '__builtins__'
Whitelist ==
    {"print", "len", "range", "list", "dict", "set", "tuple", "str", "int",
     "float", "bool", "abs", "max", "min", "sum", "sorted", "enumerate", "zip",
     "map", "filter"}

\* the names of the builtins module, as far as the programs use them
Builtins ==
    Whitelist \cup {"open", "__import__", "eval", "exec", "ValueError", "SystemExit"}

\* lines 52-74: the namespace handed to exec; its '__builtins__' entry is the
\* builtins of the executor's own module
namespace == [names |-> Whitelist, builtins |-> Some(Builtins)]

\* a global name is looked up in the namespace, then in its '__builtins__'
resolves(name, ns) ==
    name \in ns.names \/ (ns.builtins # None /\ name \in ns.builtins[1])

\* the global names a program reads that it does not bind itself
names_used(code) ==
    CASE Program(code) = OPEN   -> {"open"}
      [] Program(code) = IMPORT -> {"__import__"}
      [] Program(code) = FAULT  -> {"ValueError"}
      [] Program(code) = EXIT   -> {"SystemExit"}
      [] OTHER                  -> {}

\* a statement that does not finish: the call running it does not return
Never == "never"

\* exec(code, namespace): "ok", the class of what it raises, or Never
exec_code(code) ==
    CASE ~ compile_ok(code)     -> "SyntaxError"
      [] \E name \in names_used(code) : ~ resolves(name, namespace) ->
             IF Program(code) = IMPORT THEN "ImportError" ELSE "NameError"
      [] Program(code) = FAULT  -> "ValueError"
      [] Program(code) = EXIT   -> "SystemExit"
      [] Program(code) = LOOP   -> Never
      [] OTHER                  -> "ok"

\* classes derived from BaseException but not from Exception
BaseExceptions == {"SystemExit"}

\* what no `except Exception` of the executor ends
Uncaught == BaseExceptions \cup {Never}

\* name of the first FunctionDef met by ast.walk, None when there is none
first_function_def(code) ==
    CASE Program(code) \in {MINUS, PLUS, NONE} -> Some("add")
      [] Program(code) = METHOD                -> Some("len")
      [] OTHER                                 -> None

\* names bound at top level by exec(code, namespace)
namespace_names(code) ==
    CASE Program(code) \in {MINUS, PLUS, NONE} -> {"add"}
      [] Program(code) = NOFUNC                -> {"x"}
      [] Program(code) = IMPORT                -> {"os"}
      [] Program(code) = METHOD                -> {"A"}
      \* the ResourceWarning for the file left open is issued with the
      \* namespace as globals, which gives it a warning registry
      [] Program(code) = OPEN                  -> {"__warningregistry__"}
      [] OTHER                                 -> {}

\* the keys of the namespace dictionary after exec(code, namespace)
namespace_keys(code) ==
    namespace.names \cup {"__builtins__"} \cup namespace_names(code)

\* the value of add(a, b) in the namespace the code leaves
call_add(code, a, b) ==
    CASE Program(code) = MINUS -> Some(a - b)
      [] Program(code) = PLUS  -> Some(a + b)
      [] OTHER                 -> None

(***************************************************************************)
(* Assertions.                                                             *)
(***************************************************************************)
T1    == "assert add(1,2)==3"
T2    == "assert add(0,0)==0"
T3    == "assert add(2,1)==3"
TBAD  == "assert add(1,2)=="
TEXIT == "raise SystemExit"
TLOOP == "while True: pass"
TPASS == "pass"
TSET  == "assert (x := 5)"
TGET  == "assert x"

Assertions == {T1, T2, T3, TBAD, TEXIT, TLOOP, TPASS, TSET, TGET}

\* the arguments of the call on the left of '==' and the literal on its right
test_args(test) ==
    CASE test = T1 -> <<1, 2>>
      [] test = T2 -> <<0, 0>>
      [] test = T3 -> <<2, 1>>

test_expected(test) ==
    CASE test = T1 -> 3
      [] test = T2 -> 0
      [] test = T3 -> 3

\* '==' in test
has_eq(test) == test \in {T1, T2, T3, TBAD}

\* test.replace('assert ', '').split('=='): the stripped parts
split_eq(test) ==
    CASE test \in {T1, T2, T3} -> <<"add(...)", "literal">>
      [] test = TBAD           -> <<"add(...)", "">>
      [] OTHER                 -> <<test>>

\* line 98: the keys of the namespace the i-th assertion (1-based) runs in
test_namespace_shared(code, test_cases, i) ==
    namespace_keys(code)
    \cup UNION {IF test_cases[j] = TSET THEN {"x"} ELSE {} : j \in 1..(i - 1)}

test_namespace(code, test_cases, i) == namespace_keys(code)

\* exec(test, test_namespace) for the i-th assertion: "ok", or the class of
\* what it raises
exec_test(code, test_cases, i) ==
    LET test == test_cases[i] IN
    CASE test = TPASS -> "ok"
      [] test = TEXIT -> "SystemExit"
      [] test = TLOOP -> Never
      [] test = TBAD  -> "SyntaxError"
      [] test = TSET  -> "ok"
      [] test = TGET  ->
            IF "x" \in test_namespace(code, test_cases, i) THEN "ok" ELSE "NameError"
      [] OTHER ->
            IF "add" \notin test_namespace(code, test_cases, i) THEN "NameError"
            ELSE IF call_add(code, test_args(test)[1], test_args(test)[2])
                      = Some(test_expected(test))
                 THEN "ok" ELSE "AssertionError"

\* eval(call_part, test_namespace) under `except: pass`: None when it raises
eval_call(code, test) ==
    IF test \in {T1, T2, T3} /\ "add" \in namespace_names(code)
    THEN call_add(code, test_args(test)[1], test_args(test)[2]) ELSE None

\* eval(expected_part, test_namespace) under `except: pass`
eval_expected(code, test) ==
    IF test \in {T1, T2, T3} THEN Some(test_expected(test)) ELSE None

(***************************************************************************)
(* CodeExecutor.execute_code (src/src/executor.py).                        *)
(***************************************************************************)
EmptyResult ==
    [success |-> FALSE, output |-> "", error |-> None, tests_passed |-> 0,
     tests_total |-> 0, failed_tests |-> <<>>, passed_tests |-> <<>>]

\* the entry appended to failed_tests by the `except AssertionError` of line 111
assertion_failure(code, test, i) ==
    LET two    == has_eq(test) /\ Len(split_eq(test)) = 2
        actual == IF two THEN eval_call(code, test) ELSE None
        expect == IF two THEN eval_expected(code, test) ELSE None
    IN  [test_number |-> i, test |-> test, status |-> "FAILED",
         error |-> IF actual # None /\ expect # None
                   THEN "Expected {expected_value}, but got {actual_value}"
                   ELSE "Assertion failed",
         type |-> "AssertionError", expected |-> expect, actual |-> actual]

\* one pass of the loop body of line 86 for the i-th test (1-based), where
\* `raised` is what exec(test, test_namespace) does: the result after it, and
\* the class of the exception that escapes it ("" when none does)
run_test(code, test, i, result, raised) ==
    LET func_name == first_function_def(code) IN
    IF ~ (func_name # None /\ func_name[1] \in namespace_keys(code))
    THEN [raises |-> "",
          result |-> [result EXCEPT !.failed_tests = Append(@,
              [test_number |-> i, test |-> test, status |-> "FAILED",
               error |-> "Function not found in code",
               type |-> "ExecutionError"])]]
    ELSE IF raised = "ok"
    THEN [raises |-> "",
          result |-> [result EXCEPT
              !.tests_passed = @ + 1,
              !.passed_tests = Append(@,
                  [test_number |-> i, test |-> test, status |-> "PASSED"])]]
    ELSE IF raised = "AssertionError"
    THEN [raises |-> "",
          result |-> [result EXCEPT !.failed_tests =
                          Append(@, assertion_failure(code, test, i))]]
    ELSE IF raised \notin Uncaught
    THEN [raises |-> "",
          result |-> [result EXCEPT !.failed_tests = Append(@,
              [test_number |-> i, test |-> test, status |-> "FAILED",
               error |-> "{error_type}: {error_msg}", type |-> raised])]]
    ELSE [raises |-> raised, result |-> result]

\* the loop of line 86 from the i-th test on; an exception that escapes the
\* body ends it
RECURSIVE run_tests(_, _, _, _)
run_tests(code, test_cases, i, ran) ==
    IF i > Len(test_cases) \/ ran.raises # "" THEN ran
    ELSE run_tests(code, test_cases, i + 1,
                   run_test(code, test_cases[i], i, ran.result,
                            exec_test(code, test_cases, i)))

\* lines 190-198: the first five failures and the count of the others
ShownFailures == 5

failure_summary(failed_tests) ==
    [kind  |-> "tests",
     shown |-> [k \in 1..(IF Len(failed_tests) < ShownFailures THEN Len(failed_tests)
                          ELSE ShownFailures) |-> failed_tests[k].test_number],
     more  |-> IF Len(failed_tests) > ShownFailures
               THEN Len(failed_tests) - ShownFailures ELSE 0]

\* lines 190-198 applied to what the loop of line 86 left
with_error(ran) ==
    IF ran.raises = "" /\ ran.result.failed_tests # <<>>
    THEN [ran EXCEPT !.result.error = Some(failure_summary(ran.result.failed_tests))]
    ELSE ran

\* lines 79-84: the result when the code has run and the tests are about to
started_forgets_total(test_cases) == [EmptyResult EXCEPT !.success = TRUE]

started(test_cases) ==
    [EmptyResult EXCEPT !.success = TRUE, !.tests_total = Len(test_cases)]

\* lines 76-204, where `raised` is what exec(code, namespace) does
run_candidate(code, test_cases, raised) ==
    IF raised \in Uncaught
    THEN [raises |-> raised, result |-> EmptyResult]
    ELSE IF raised # "ok"
    THEN [raises |-> "",
          result |-> [EmptyResult EXCEPT !.error = Some([kind |-> raised])]]
    ELSE IF test_cases = <<>>
    THEN [raises |-> "", result |-> [EmptyResult EXCEPT !.success = TRUE]]
    ELSE with_error(run_tests(code, test_cases, 1,
             [raises |-> "", result |-> started(test_cases)]))

\* execute_code(code, test_cases): [raises |-> "" and the result returned, or
\* raises |-> the class of the exception that leaves the call]
execute_code(code, test_cases) ==
    IF ~ ast_parse(code)
    THEN [raises |-> "",
          result |-> [EmptyResult EXCEPT !.error = Some([kind |-> "Syntax Error"])]]
    ELSE run_candidate(code, test_cases, exec_code(code))

\* validate_code(code): is_valid
validate_code_parses_only(code) == ast_parse(code)

validate_code(code) == compile_ok(code)

(***************************************************************************)
(* AgentObserver.log and run_code_tool (src/src/agent.py).                 *)
(***************************************************************************)
\* the entry AgentObserver.log appends (the clock is not modelled)
LogEntry(action, level, message) ==
    [action |-> action, level |-> level, message |-> message]

\* lines 165-174: what the verdict's text shows for the first three failures
ShownInVerdict == 3

failure_details(failed_tests) ==
    [k \in 1..(IF Len(failed_tests) < ShownInVerdict THEN Len(failed_tests)
               ELSE ShownInVerdict) |->
        LET failed == failed_tests[k] IN
        IF "actual" \in DOMAIN failed /\ "expected" \in DOMAIN failed
           /\ failed.actual # None
        THEN [test_number |-> failed.test_number, shows |-> "Expected/Got",
              expected |-> failed.expected, actual |-> failed.actual]
        ELSE [test_number |-> failed.test_number, shows |-> failed.error]]

\* line 146: all tests passed
all_passed_or_none_ran(passed, total) == passed = total

all_passed(passed, total) == passed = total /\ passed > 0

\* the verdict of lines 146-195 for the result of execute_code
tests_verdict(result) ==
    LET passed == result.tests_passed
        total  == result.tests_total
        failed_tests == result.failed_tests
    IN  IF all_passed(passed, total)
        THEN [success |-> TRUE, tests_passed |-> passed, tests_total |-> total,
              message |-> "SUCCESS! All {total} tests passed!"]
        ELSE [success |-> FALSE, tests_passed |-> passed, tests_total |-> total,
              failed_count |-> Len(failed_tests),
              failed_tests |-> [k \in 1..Len(failed_tests) |->
                                  [test |-> failed_tests[k].test,
                                   error |-> failed_tests[k].error]],
              error |-> [kind |-> "tests failed", failed |-> total - passed,
                         details |-> failure_details(failed_tests),
                         more |-> IF Len(failed_tests) > ShownInVerdict
                                  THEN Len(failed_tests) - ShownInVerdict ELSE 0]]

\* lines 142-208: what run_code_tool makes of `ran`, the outcome of its
\* execute_code call, after logging `called`
after_execute(code, test_cases, called, ran) ==
    IF ran.raises # ""
    THEN [raises |-> ran.raises, previous_code |-> Some(code),
          logged |-> called, exec |-> Some(ran), verdict |-> None]
    ELSE IF test_cases # <<>>
    THEN [raises |-> "", previous_code |-> Some(code),
          logged |-> Append(called,
              IF all_passed(ran.result.tests_passed, ran.result.tests_total)
              THEN LogEntry("ALL_PASS", "SUCCESS", "SUCCESS! All {total} tests passed!")
              ELSE LogEntry("TESTS_FAILED", "ERROR", "{passed}/{total} passed")),
          exec |-> Some(ran), verdict |-> tests_verdict(ran.result)]
    ELSE IF ran.result.error # None
    THEN [raises |-> "", previous_code |-> Some(code),
          logged |-> Append(called,
              LogEntry("RUNTIME_ERROR", "ERROR", "{result['error']}")),
          exec |-> Some(ran),
          verdict |-> [success |-> FALSE,
                       error |-> [kind |-> "Runtime Error",
                                  cause |-> ran.result.error[1]]]]
    ELSE [raises |-> "", previous_code |-> Some(code),
          logged |-> Append(called,
              LogEntry("NO_ERROR", "SUCCESS", "Code runs without errors!")),
          exec |-> Some(ran),
          verdict |-> [success |-> TRUE, message |-> "Code runs without errors!"]]

\* line 87: the duplicate-submission guard
same_submission_unstripped(code, previous_code) ==
    previous_code # None /\ code = previous_code[1]

same_submission(code, previous_code) ==
    previous_code # None /\ strip(code) = strip(previous_code[1])

\* lines 107-109
tool_called ==
    <<LogEntry("TOOL_CALLED", "TOOL", "LLM CALLED run_code TOOL!"),
      LogEntry("TOOL_EXECUTE", "TOOL", "Running code ({len(code)} chars)...")>>

\* run_code_tool(code, reason) with the globals _previous_code and _test_cases
\* and an observer installed: the verdict returned (or the class of the
\* exception that leaves the call), the new _previous_code, the entries
\* appended to the log, and the outcome of the execute_code call, if one is made
run_code_tool(code, previous_code, test_cases) ==
    IF code = <<>>
    THEN [raises |-> "", previous_code |-> previous_code, logged |-> <<>>,
          exec |-> None,
          verdict |-> [success |-> FALSE, error |-> [kind |-> "No code provided"]]]
    ELSE IF same_submission(code, previous_code)
    THEN [raises |-> "", previous_code |-> previous_code,
          logged |-> <<LogEntry("DUPLICATE_CODE", "ERROR", "Same code submitted twice!")>>,
          exec |-> None,
          verdict |-> [success |-> FALSE, error |-> [kind |-> "duplicate warning"],
                       duplicate_submission |-> TRUE]]
    ELSE IF ~ validate_code(code)
    THEN [raises |-> "", previous_code |-> Some(code),
          logged |-> Append(tool_called, LogEntry("SYNTAX_ERROR", "ERROR", "{syntax_error}")),
          exec |-> None,
          verdict |-> [success |-> FALSE, error |-> [kind |-> "Syntax Error"]]]
    ELSE after_execute(code, test_cases, tool_called,
             execute_code(code, IF test_cases # <<>> THEN test_cases ELSE <<TPASS>>))

(***************************************************************************)
(* The external service and the tasks.                                     *)
(***************************************************************************)
\* tool_call.function.arguments, and json.loads of it
ArgsObject(code, reason) == [form |-> "object", code |-> code, reason |-> reason]
ArgsArray     == [form |-> "array"]
ArgsMalformed == [form |-> "malformed"]

json_loads(arguments) ==
    IF arguments.form = "malformed"
    THEN [raises |-> "JSONDecodeError"]
    ELSE [raises |-> "", value |-> arguments]

\* function_args.get(key, default) on a dict
args_get(function_args, key, default) ==
    IF function_args[key] = None THEN default ELSE function_args[key][1]

ToolCall(name, arguments) == [name |-> name, arguments |-> arguments]
Submit(code) == ToolCall("run_code", ArgsObject(Some(code), Some("reason")))

\* response.choices[0].message
Message(content, tool_calls) ==
    [role |-> "assistant", content |-> content, tool_calls |-> tool_calls]
Text == Message("text", <<>>)
Calls(tool_calls) == Message("", tool_calls)
One(code) == Calls(<<Submit(code)>>)

(***************************************************************************)
(* TogetherCodeFixAgent (src/src/agent.py).                                *)
(***************************************************************************)
\* transient failures the service may have in one session
MaxGlitches == 3

\* self.clients, one per configured key
Clients == <<"client-1", "client-2">>

max_retries      == 3
api_retry_count  == 3
EarlyIterations  == 3
StuckThreshold   == 3
MinReturnLength  == 20

\* get_next_client(): the client dispensed, its ordinal and the new cursor
get_next_client_no_wrap(index) ==
    [client     |-> clients[index + 1],
     client_num |-> index + 1,
     index      |-> index + 1]

get_next_client(index) ==
    [client     |-> clients[index + 1],
     client_num |-> index + 1,
     index      |-> (index + 1) % Len(clients)]

\* lines 451-457, in tenths
adaptive_temperature_failures_first(iteration, failures) ==
    IF failures >= StuckThreshold THEN 3
    ELSE IF iteration < EarlyIterations THEN 7
    ELSE 5

adaptive_temperature_late_high(iteration, failures) ==
    IF iteration < EarlyIterations THEN 5
    ELSE IF failures >= StuckThreshold THEN 3
    ELSE 7

adaptive_temperature(iteration, failures) ==
    IF iteration < EarlyIterations THEN 7
    ELSE IF failures >= StuckThreshold THEN 3
    ELSE 5

\* json.dumps(tool_result)
json_dumps(value) == [json |-> value]

\* Python truthiness of an Optional[str]
truthy(code) == code # None /\ code[1] # <<>>

session_inputs ==
    <<buggy_code, max_iterations, g_test_cases, service, verbose, clients, session_no>>

\* lines 26-39: log("NOTE", "message", level="ERROR") of the observer, called
\* by another thread of the program that holds agent.observer
NoteEntry == LogEntry("NOTE", "ERROR", "message")

Unheard(entries) == \A k \in DOMAIN entries : entries[k].action # "NOTE"

\* what the log may hold after a step of fix_code that leaves `log`, the log
\* before with the entries of the step: `log`, or, when another thread is
\* there and makes its one call of log() while the step runs, `log` with that
\* entry before, between or after the entries of the step (line 39: each
\* append is atomic)
heard(log) ==
    IF rivals = <<>> \/ ~ Unheard(logs)
    THEN {log}
    ELSE {log} \cup {SubSeq(log, 1, k) \o <<NoteEntry>> \o SubSeq(log, k + 1, Len(log)) :
                       k \in Len(logs)..Len(log)}

\* fix_code is left: by `return` (escapes = "") or by an exception
Leave(how, escapes, value, log) ==
    /\ pc' = "done"
    /\ outcome' = how
    /\ escaped' = escapes
    /\ returned' = value
    /\ logs' \in heard(log)
    /\ UNCHANGED <<iteration_count, retry_attempt, api_attempt, temperature,
                   current_client_index, dispensed>>

\* lines 651-659: the code after the iteration loop
after_loop_any_length(how, code, log) ==
    IF truthy(code)
    THEN Leave(how, "", code, Append(log,
             LogEntry("FIX_PARTIAL", "ERROR",
                      "Returning last submitted code (tests may not pass)")))
    ELSE Leave(how, "", Some(buggy_code), Append(log,
             LogEntry("FIX_FAILED", "ERROR", "Could not fix code")))

after_loop(how, code, log) ==
    IF truthy(code) /\ len(code[1]) > MinReturnLength
    THEN Leave(how, "", code, Append(log,
             LogEntry("FIX_PARTIAL", "ERROR",
                      "Returning last submitted code (tests may not pass)")))
    ELSE Leave(how, "", Some(buggy_code), Append(log,
             LogEntry("FIX_FAILED", "ERROR", "Could not fix code")))

\* lines 417-462: the body of the outer retry loop is entered for `retry`,
\* up to the service call
enter_retry(iteration, retry, failures, log) ==
    /\ pc' = "request"
    /\ iteration_count' = iteration
    /\ retry_attempt' = retry
    /\ current_client_index' = get_next_client(current_client_index).index
    /\ dispensed' = Append(dispensed,
           [client     |-> get_next_client(current_client_index).client,
            client_num |-> get_next_client(current_client_index).client_num,
            session    |-> IF pc = "idle" THEN session_no + 1 ELSE session_no])
    /\ temperature' = adaptive_temperature(iteration, failures)
    /\ api_attempt' = 0
    /\ response' = None
    /\ logs' \in heard(log)
    /\ UNCHANGED <<outcome, escaped, returned>>

\* line 404: the header of the iteration loop, reached for index `iteration`
\* `answer` is what `response` holds when the header is reached
enter_iteration_one_more(iteration, failures, code, log, answer) ==
    IF iteration <= max_iterations
    THEN enter_retry(iteration, 0, failures, log)
    ELSE after_loop("EXHAUSTED", code, log) /\ response' = answer

enter_iteration(iteration, failures, code, log, answer) ==
    IF iteration < max_iterations
    THEN enter_retry(iteration, 0, failures, log)
    ELSE after_loop("EXHAUSTED", code, log) /\ response' = answer

\* line 307: _previous_code when a session starts
session_previous_code_kept(previous_code) == previous_code

session_previous_code(previous_code) == None

\* lines 294-404: fix_code is called for a task
fix_code_start(task) ==
    /\ UNCHANGED <<concurrent, summary, results>>
    /\ pc = "idle"
    /\ buggy_code' = task.buggy_code
    /\ service' = task.service
    /\ g_test_cases' = task.test_cases
    /\ g_previous_code' = session_previous_code(g_previous_code)
    /\ g_observer' = TRUE
    /\ messages' = <<[role |-> "system", content |-> [text |-> "system_message"]],
                     [role |-> "user",
                      content |-> [text |-> "user_message",
                                   buggy_code |-> task.buggy_code,
                                   test_info |-> task.test_cases]]>>
    /\ tool_was_called' = FALSE
    /\ final_code' = None
    /\ consecutive_failures' = 0
    /\ enter_iteration(0, 0, None,
           logs \o <<LogEntry("SESSION_START", "INFO", "Starting task: {task_id}"),
                     LogEntry("FIX_START", "AGENT", "Starting code fix with Together AI"),
                     LogEntry("AGENT_RUN", "AGENT", "Running Together AI agent...")>>,
           response)
    /\ session_no' = session_no + 1
    /\ UNCHANGED <<max_iterations, verbose, tc_index, tool_result, exec_result,
                   service_calls, executions, trail, glitches, outage, clients>>

\* lines 466-530: chat.completions.create raises, because of a transient
\* failure or because the service is down (an outage starts with a request)
create_raises(down) ==
    /\ UNCHANGED <<concurrent, summary, results>>
    /\ pc = "request"
    /\ IF outage THEN down
       ELSE IF down THEN retry_attempt = 0 /\ api_attempt = 0
       ELSE glitches < MaxGlitches
    /\ outage' = down
    /\ glitches' = IF down THEN glitches ELSE glitches + 1
    /\ service_calls' = service_calls + 1
    /\ IF api_attempt < api_retry_count - 1
       THEN \* lines 475-478: time.sleep(api_retry_delay) is entered
            /\ pc' = "api_sleep"
            /\ logs' \in heard(logs)
            /\ UNCHANGED <<iteration_count, retry_attempt, api_attempt, temperature,
                           current_client_index, dispensed, outcome, escaped, returned,
                           response>>
       ELSE \* line 482: the error reaches the handler of line 492
            LET log == Append(logs, LogEntry("API_ERROR", "ERROR",
                           "Together AI API Error (attempt {n}/{max_retries})"))
            IN  IF retry_attempt = max_retries - 1
                THEN \* line 520 leaves the retry loop by `break`, so its `else`
                     \* is skipped and line 533 reads response, which is None
                     Leave("RAISED", "AttributeError", None, log) /\ UNCHANGED response
                ELSE IF retry_attempt + 1 < max_retries
                THEN \* line 525: time.sleep(retry_delay) is entered
                     /\ pc' = "retry_sleep"
                     /\ logs' \in heard(log)
                     /\ UNCHANGED <<iteration_count, retry_attempt, api_attempt,
                                    temperature, current_client_index, dispensed,
                                    outcome, escaped, returned, response>>
                ELSE \* line 528: the `else` of the retry loop
                     after_loop("ABORTED", final_code, log) /\ UNCHANGED response
    /\ UNCHANGED <<session_inputs, g_previous_code, g_observer, messages, tc_index,
                   tool_was_called, final_code, consecutive_failures, tool_result,
                   exec_result, executions, trail>>

\* lines 478-479 and 464: time.sleep(api_retry_delay) returns and the loop
\* of line 464 makes the next attempt with the same client
api_sleep_returns ==
    /\ UNCHANGED <<concurrent, summary, results>>
    /\ pc = "api_sleep"
    /\ pc' = "request"
    /\ api_attempt' = api_attempt + 1
    /\ logs' \in heard(logs)
    /\ UNCHANGED <<iteration_count, retry_attempt, temperature, current_client_index,
                   dispensed, outcome, escaped, returned, response>>
    /\ UNCHANGED <<session_inputs, g_previous_code, g_observer, messages, tc_index,
                   tool_was_called, final_code, consecutive_failures, tool_result,
                   exec_result, executions, trail, service_calls, glitches, outage>>

\* lines 525-527 and 417-462: time.sleep(retry_delay) returns and `continue`
\* starts the next pass of the retry loop, which takes the next client
retry_sleep_returns ==
    /\ UNCHANGED <<concurrent, summary, results>>
    /\ pc = "retry_sleep"
    /\ enter_retry(iteration_count, retry_attempt + 1, consecutive_failures, logs)
    /\ UNCHANGED <<session_inputs, g_previous_code, g_observer, messages, tc_index,
                   tool_was_called, final_code, consecutive_failures, tool_result,
                   exec_result, executions, trail, service_calls, glitches, outage>>

\* lines 645-649: a response without tool call in an iteration after the first
no_tool_call_later_continues(assistant_message) ==
    /\ messages' = Append(messages, assistant_message)
    /\ enter_iteration(iteration_count + 1, consecutive_failures, final_code, logs,
                       Some(assistant_message))
    /\ UNCHANGED <<tool_was_called, tc_index>>

no_tool_call_later(assistant_message) ==
    /\ messages' = Append(messages, assistant_message)
    /\ after_loop("CONCLUDED", final_code, logs)
    /\ response' = Some(assistant_message)
    /\ UNCHANGED <<tool_was_called, tc_index>>

\* lines 466-568 and 628-649: chat.completions.create returns assistant_message
create_returns(assistant_message) ==
    /\ UNCHANGED <<concurrent, summary, results>>
    /\ pc = "request"
    /\ ~ outage
    /\ service_calls' = service_calls + 1
    /\ IF assistant_message.tool_calls # <<>>
       THEN /\ response' = Some(assistant_message)
            /\ messages' = Append(messages, assistant_message)
            /\ tool_was_called' = TRUE
            /\ tc_index' = 1
            /\ pc' = "tool_call"
            /\ logs' \in heard(logs)
            /\ UNCHANGED <<iteration_count, retry_attempt, api_attempt, temperature,
                           current_client_index, dispensed, outcome, escaped, returned>>
       ELSE IF iteration_count = 0
       THEN /\ messages' = messages \o
                   <<assistant_message,
                     [role |-> "user", content |-> [text |-> "STOP! You did NOT call run_code!"]]>>
            /\ enter_iteration(iteration_count + 1, consecutive_failures,
                               final_code, logs, Some(assistant_message))
            /\ UNCHANGED <<tool_was_called, tc_index>>
       ELSE no_tool_call_later(assistant_message)
    /\ UNCHANGED <<session_inputs, g_previous_code, g_observer, final_code, glitches, outage,
                   consecutive_failures, tool_result, exec_result, executions, trail>>

\* what follows the body of the loop of line 571: the next tool call of the
\* response, or the next iteration
next_call_first_only(failures, code, log) ==
    /\ enter_iteration(iteration_count + 1, failures, code, log, response)
    /\ UNCHANGED tc_index

next_call(failures, code, log) ==
    IF tc_index < Len(response[1].tool_calls)
    THEN /\ tc_index' = tc_index + 1
         /\ logs' \in heard(log)
         /\ UNCHANGED <<pc, iteration_count, retry_attempt, api_attempt,
                        temperature, current_client_index, dispensed, outcome,
                        escaped, returned, response>>
    ELSE /\ enter_iteration(iteration_count + 1, failures, code, log, response)
         /\ UNCHANGED tc_index

\* `if _observer:` around the _observer.log calls of run_code_tool
observed(logged) == IF g_observer THEN logs \o logged ELSE logs

\* line 623: the value returned once a verdict is accepted
success_value_original(kept) == Some(buggy_code)

success_value(kept) == IF truthy(kept) THEN kept ELSE Some(buggy_code)

\* lines 590-597: the transcript after the tool message for the verdict
with_tool_message_unless_duplicate(transcript, id, verdict) ==
    IF "duplicate_submission" \in DOMAIN verdict THEN transcript
    ELSE Append(transcript,
             [role |-> "tool", tool_call_id |-> id, name |-> "run_code",
              content |-> json_dumps(verdict)])

with_tool_message(transcript, id, verdict) ==
    Append(transcript,
        [role |-> "tool", tool_call_id |-> id, name |-> "run_code",
         content |-> json_dumps(verdict)])

\* lines 624-626: consecutive_failures after a verdict that is not accepted
count_failure_skips_duplicates(failures, verdict) ==
    IF "duplicate_submission" \in DOMAIN verdict THEN failures ELSE failures + 1

count_failure(failures, verdict) == failures + 1

\* lines 581-626: run_code_tool was called with `code` and did `ran`;
\* `kept` is final_code after line 588
after_run_code_tool(code, kept, ran) ==
    /\ g_previous_code' = ran.previous_code
    /\ exec_result' = ran.exec
    /\ executions' = executions + (IF ran.exec # None THEN 1 ELSE 0)
    /\ trail' = Append(trail, [code |-> code, executed |-> ran.exec # None,
                               verdict |-> ran.verdict,
                               iteration |-> iteration_count,
                               service_calls |-> service_calls])
    /\ IF ran.raises = Never
       THEN \* line 141 does not return: fix_code stays in this call
            /\ pc' = "hung"
            /\ logs' \in heard(observed(ran.logged))
            /\ UNCHANGED <<messages, tc_index, final_code, consecutive_failures,
                           tool_result, response, outcome, escaped, returned,
                           iteration_count, retry_attempt, api_attempt,
                           temperature, current_client_index, dispensed>>
       ELSE IF ran.raises # ""
       THEN \* the exception leaves run_code_tool at line 141 or 198
            /\ Leave("RAISED", ran.raises, None, observed(ran.logged))
            /\ UNCHANGED <<messages, tc_index, final_code,
                           consecutive_failures, tool_result, response>>
       ELSE /\ tool_result' = Some(ran.verdict)
            /\ final_code' = kept
            /\ messages' = with_tool_message(messages, tc_index, ran.verdict)
            /\ IF ran.verdict.success
               THEN /\ Leave("SUCCESS", "", success_value(kept),
                             Append(observed(ran.logged),
                                 LogEntry("FIX_SUCCESS", "SUCCESS",
                                     "Code fix completed - all tests passed")))
                    /\ UNCHANGED <<consecutive_failures, tc_index, response>>
               ELSE /\ consecutive_failures' =
                           count_failure(consecutive_failures, ran.verdict)
                    /\ next_call(count_failure(consecutive_failures, ran.verdict),
                                 kept, observed(ran.logged))

\* lines 580-588: the tool call is a run_code call with arguments function_args
call_run_code(function_args) ==
    after_run_code_tool(
        args_get(function_args, "code", <<>>),
        IF truthy(function_args.code) THEN function_args.code ELSE final_code,
        run_code_tool(args_get(function_args, "code", <<>>),
                      g_previous_code, g_test_cases))

\* lines 575-582: function_args.keys() (reached when `verbosity` is set) or
\* function_args.get() (reached for run_code) is called on arguments that are
\* no dictionary
keys_or_get_raises(verbosity, tool_call, parsed) ==
    /\ parsed.raises = ""
    /\ parsed.value.form # "object"
    /\ (verbosity \/ tool_call.name = "run_code")

\* lines 571-626: the tool call at tc_index is handled, where `parsed` is what
\* json.loads makes of its arguments
handle(tool_call, parsed) ==
    IF parsed.raises # ""
    THEN \* line 573
         /\ Leave("RAISED", parsed.raises, None, logs)
         /\ UNCHANGED <<g_previous_code, messages, tc_index, final_code,
                        consecutive_failures, tool_result, exec_result,
                        executions, trail, response>>
    ELSE IF keys_or_get_raises(verbose, tool_call, parsed)
    THEN \* lines 577 and 582: a list has neither keys() nor get()
         /\ Leave("RAISED", "AttributeError", None, logs)
         /\ UNCHANGED <<g_previous_code, messages, tc_index, final_code,
                        consecutive_failures, tool_result, exec_result,
                        executions, trail, response>>
    ELSE IF tool_call.name # "run_code"
    THEN /\ next_call(consecutive_failures, final_code, logs)
         /\ UNCHANGED <<g_previous_code, messages, final_code,
                        consecutive_failures, tool_result, exec_result,
                        executions, trail>>
    ELSE call_run_code(parsed.value)

handle_tool_call ==
    /\ UNCHANGED <<concurrent, summary, results>>
    /\ pc = "tool_call"
    /\ handle(response[1].tool_calls[tc_index],
              json_loads(response[1].tool_calls[tc_index].arguments))
    /\ UNCHANGED <<session_inputs, g_observer, tool_was_called, service_calls,
                   glitches, outage>>

(***************************************************************************)
(* Tasks, the behaviours of the service, and the specification.            *)
(***************************************************************************)
MaxIter == 3

BUGGY == <<"\n", MINUS, "\n">>

\* what the service may answer during one session
Repertoires ==
    { {Text, One(<<MINUS>>), One(<<MINUS, "\n">>), One(<<NONE>>),
       One(<<PLUS>>), Calls(<<Submit(<<MINUS>>), Submit(<<PLUS>>)>>)},
      {One(<<MINUS>>), One(<<EXIT>>), One(<<NOFUNC>>), One(<<BADSYN>>),
       Calls(<<ToolCall("run_code", ArgsMalformed)>>),
       Calls(<<ToolCall("run_code", ArgsObject(None, None))>>)},
      {Text, One(<<FAULT>>), One(<<" ", PLUS>>),
       Calls(<<ToolCall("lookup", ArgsArray)>>),
       Calls(<<ToolCall("run_code", ArgsArray)>>),
       Calls(<<Submit(<<PLUS>>), Submit(<<MINUS>>)>>)},
      {Text, One(<<NOFUNC>>), One(<<LOOP>>)} }

TestLists == {<<T1, T2>>, <<>>}

Tasks == [buggy_code : {BUGGY}, test_cases : TestLists, service : Repertoires]

\* the agent after __init__
Init ==
    /\ pc = "idle"
    /\ max_iterations \in 1..MaxIter
    /\ verbose \in BOOLEAN
    /\ logs = <<>>
    /\ current_client_index = 0
    /\ clients = Clients
    /\ dispensed = <<>>
    /\ session_no = 0
    /\ summary = None
    /\ results = NoResults
    /\ callers = <<>>
    /\ rivals = <<>>
    /\ g_owner = 0
    /\ buggy_code = <<>>
    /\ g_test_cases = <<>>
    /\ g_previous_code = None
    /\ messages = <<>>
    /\ iteration_count = 0
    /\ retry_attempt = 0
    /\ api_attempt = 0
    /\ temperature = 0
    /\ response = None
    /\ tc_index = 0
    /\ tool_was_called = FALSE
    /\ final_code = None
    /\ consecutive_failures = 0
    /\ tool_result = None
    /\ exec_result = None
    /\ outcome = ""
    /\ escaped = ""
    /\ returned = None
    /\ service = {}
    /\ service_calls = 0
    /\ executions = 0
    /\ trail = <<>>
    /\ glitches = 0
    /\ outage = FALSE
    /\ g_observer = FALSE

Next ==
    \/ \E task \in Tasks : fix_code_start(task)
    \/ \E down \in BOOLEAN : create_raises(down)
    \/ api_sleep_returns
    \/ retry_sleep_returns
    \/ \E assistant_message \in service : create_returns(assistant_message)
    \/ handle_tool_call

Spec == Init /\ [][Next]_vars

(***************************************************************************)
(* run_code_tool on its own: the globals are given, no observer is         *)
(* installed, and the tool is called with any candidate, again and again.  *)
(***************************************************************************)
MaxTests == 2

TestPool == {T1, T2, T3, TBAD, TEXIT, TLOOP}

AllTestLists == UNION {[1..n -> TestPool] : n \in 0..MaxTests}

Texts ==
    {<<>>, <<" ">>} \cup {<<p>> : p \in Programs}
    \cup {<<MINUS, "\n">>, <<"\n", PLUS>>, <<" ", PLUS>>, <<"\n", MINUS, "\n">>}

InitTool ==
    /\ pc = "tool"
    /\ g_test_cases \in AllTestLists
    /\ g_previous_code = None
    /\ g_observer = FALSE
    /\ max_iterations = 1
    /\ verbose = TRUE
    /\ logs = <<>>
    /\ current_client_index = 0
    /\ clients = Clients
    /\ dispensed = <<>>
    /\ session_no = 0
    /\ summary = None
    /\ results = NoResults
    /\ callers = <<>>
    /\ rivals = <<>>
    /\ g_owner = 0
    /\ buggy_code = <<>>
    /\ messages = <<>>
    /\ iteration_count = 0
    /\ retry_attempt = 0
    /\ api_attempt = 0
    /\ temperature = 0
    /\ response = None
    /\ tc_index = 0
    /\ tool_was_called = FALSE
    /\ final_code = None
    /\ consecutive_failures = 0
    /\ tool_result = None
    /\ exec_result = None
    /\ outcome = ""
    /\ escaped = ""
    /\ returned = None
    /\ service = {}
    /\ service_calls = 0
    /\ executions = 0
    /\ trail = <<>>
    /\ glitches = 0
    /\ outage = FALSE

\* run_code_tool(code, reason) was called and did `ran`: it returned, an
\* exception left it, or it is still in its execute_code call
tool_returns_storing_when_observed(ran) ==
    /\ g_previous_code' = IF g_observer THEN ran.previous_code ELSE g_previous_code
    /\ logs' = observed(ran.logged)
    /\ exec_result' = ran.exec
    /\ tool_result' = IF ran.raises = "" THEN Some(ran.verdict) ELSE None
    /\ escaped' = IF ran.raises = Never THEN "" ELSE ran.raises
    /\ pc' = IF ran.raises = Never THEN "hung" ELSE pc

tool_returns(ran) ==
    /\ g_previous_code' = ran.previous_code
    /\ logs' = observed(ran.logged)
    /\ exec_result' = ran.exec
    /\ tool_result' = IF ran.raises = "" THEN Some(ran.verdict) ELSE None
    /\ escaped' = IF ran.raises = Never THEN "" ELSE ran.raises
    /\ pc' = IF ran.raises = Never THEN "hung" ELSE pc

call_run_code_tool(code) ==
    /\ UNCHANGED <<concurrent, summary, results>>
    /\ pc = "tool"
    /\ tool_returns(run_code_tool(code, g_previous_code, g_test_cases))
    /\ UNCHANGED <<session_inputs, g_observer, current_client_index, dispensed, messages,
                   iteration_count, retry_attempt, api_attempt, temperature,
                   response, tc_index, tool_was_called, final_code,
                   consecutive_failures, outcome, returned, service_calls,
                   executions, trail, glitches, outage>>

NextTool == \E code \in Texts : call_run_code_tool(code)

SpecTool == InitTool /\ [][NextTool]_vars

(***************************************************************************)
(* The agent over its lifetime: construction from a key string, direct     *)
(* get_next_client calls, and fix_code called again after it has returned. *)
(* The service answers every call here.                                    *)
(***************************************************************************)
MaxKeyLen == 5
MaxSessions == 2
MaxCalls == 3

\* the characters of a key string: a key character, the separator, a blank
KeyChars == {"k", ",", " "}

KeyStrings == UNION {[1..n -> KeyChars] : n \in 0..MaxKeyLen}

\* s.split(sep)
RECURSIVE split(_, _)
split(s, sep) ==
    IF \A i \in 1..Len(s) : s[i] # sep THEN <<s>>
    ELSE LET i == CHOOSE i \in 1..Len(s) :
                      s[i] = sep /\ \A j \in 1..(i - 1) : s[j] # sep
         IN  <<SubSeq(s, 1, i - 1)>> \o split(SubSeq(s, i + 1, Len(s)), sep)

\* line 230: [key.strip() for key in api_keys_raw.split(',') if key.strip()]
RECURSIVE stripped_keys(_)
stripped_keys(parts) ==
    IF parts = <<>> THEN <<>>
    ELSE (IF strip(Head(parts)) # <<>> THEN <<strip(Head(parts))>> ELSE <<>>)
         \o stripped_keys(Tail(parts))

parse_api_keys_unfiltered(api_keys_raw) ==
    [i \in 1..Len(split(api_keys_raw, ",")) |-> strip(split(api_keys_raw, ",")[i])]

parse_api_keys(api_keys_raw) == stripped_keys(split(api_keys_raw, ","))

\* line 219: api_key or os.getenv("TOGETHER_API_KEY")
api_keys_raw(api_key, env_key) ==
    IF api_key # None /\ api_key[1] # <<>> THEN api_key ELSE env_key

\* lines 214-236: TogetherCodeFixAgent(api_key, max_iterations, verbose) with
\* TOGETHER_API_KEY = env_key in the environment
constructed(api_key, env_key) ==
    LET raw == api_keys_raw(api_key, env_key) IN
    IF raw = None \/ raw[1] = <<>>
    THEN [raises |-> "ValueError", clients |-> <<>>]     \* lines 225-226
    ELSE IF parse_api_keys(raw[1]) = <<>>
    THEN [raises |-> "ValueError", clients |-> <<>>]     \* lines 232-233
    ELSE [raises |-> "", clients |-> parse_api_keys(raw[1])]

TogetherCodeFixAgent_init(api_key, env_key, iterations, verbosity) ==
    /\ UNCHANGED <<concurrent, summary, results>>
    /\ pc = "unbuilt"
    /\ IF constructed(api_key, env_key).raises # ""
       THEN /\ pc' = "no_agent"
            /\ escaped' = constructed(api_key, env_key).raises
            /\ UNCHANGED <<clients, max_iterations, verbose>>
       ELSE /\ pc' = "idle"
            /\ clients' = constructed(api_key, env_key).clients
            /\ max_iterations' = iterations
            /\ verbose' = verbosity
            /\ UNCHANGED escaped
    /\ UNCHANGED <<buggy_code, g_test_cases, g_previous_code, logs,
                   current_client_index, messages, iteration_count, retry_attempt,
                   api_attempt, temperature, response, tc_index, tool_was_called,
                   final_code, consecutive_failures, tool_result, exec_result,
                   outcome, returned, service, service_calls, executions, trail,
                   g_observer, glitches, outage, dispensed, session_no>>

\* agent.get_next_client() called by the owner of the agent, between sessions
get_next_client_call ==
    /\ UNCHANGED <<concurrent, summary, results>>
    /\ pc = "idle"
    /\ Len(dispensed) < MaxCalls
    /\ current_client_index' = get_next_client(current_client_index).index
    /\ dispensed' = Append(dispensed,
           [client     |-> get_next_client(current_client_index).client,
            client_num |-> get_next_client(current_client_index).client_num,
            session    |-> 0])
    /\ UNCHANGED <<pc, session_inputs, g_previous_code, g_observer, logs, messages,
                   iteration_count, retry_attempt, api_attempt, temperature,
                   response, tc_index, tool_was_called, final_code,
                   consecutive_failures, tool_result, exec_result, outcome,
                   returned, service_calls, executions, trail, glitches, outage,
                   escaped>>

\* fix_code has returned or raised: its caller goes on and may call it again
\* (the observations of the finished call are forgotten)
fix_code_left ==
    /\ UNCHANGED <<concurrent, summary, results>>
    /\ pc = "done"
    /\ session_no < MaxSessions
    /\ pc' = "idle"
    /\ outcome' = ""
    /\ escaped' = ""
    /\ returned' = None
    /\ tool_result' = None
    /\ exec_result' = None
    /\ response' = None
    /\ tc_index' = 0
    /\ service_calls' = 0
    /\ executions' = 0
    /\ trail' = <<>>
    /\ outage' = FALSE
    /\ UNCHANGED <<session_inputs, g_previous_code, g_observer, logs, messages,
                   iteration_count, retry_attempt, api_attempt, temperature,
                   tool_was_called, final_code, consecutive_failures, glitches,
                   current_client_index, dispensed>>

AgentTasks ==
    [buggy_code : {BUGGY}, test_cases : {<<T1, T2>>},
     service : {{Text, One(<<PLUS>>), One(<<MINUS>>)}}]

\* no agent exists yet
InitAgent ==
    /\ pc = "unbuilt"
    /\ max_iterations = 1
    /\ verbose = FALSE
    /\ logs = <<>>
    /\ current_client_index = 0
    /\ clients = <<>>
    /\ dispensed = <<>>
    /\ session_no = 0
    /\ summary = None
    /\ results = NoResults
    /\ callers = <<>>
    /\ rivals = <<>>
    /\ g_owner = 0
    /\ buggy_code = <<>>
    /\ g_test_cases = <<>>
    /\ g_previous_code = None
    /\ g_observer = FALSE
    /\ messages = <<>>
    /\ iteration_count = 0
    /\ retry_attempt = 0
    /\ api_attempt = 0
    /\ temperature = 0
    /\ response = None
    /\ tc_index = 0
    /\ tool_was_called = FALSE
    /\ final_code = None
    /\ consecutive_failures = 0
    /\ tool_result = None
    /\ exec_result = None
    /\ outcome = ""
    /\ escaped = ""
    /\ returned = None
    /\ service = {}
    /\ service_calls = 0
    /\ executions = 0
    /\ trail = <<>>
    /\ glitches = 0
    /\ outage = FALSE

ApiKeys == {None} \cup {Some(k) : k \in KeyStrings}
EnvKeys == {None, Some(<<>>), Some(<<"k">>), Some(<<",", " ">>)}

NextAgent ==
    \/ /\ pc = "unbuilt"
       /\ \E api_key \in ApiKeys, env_key \in EnvKeys, iterations \in 1..2 :
             TogetherCodeFixAgent_init(api_key, env_key, iterations, FALSE)
    \/ get_next_client_call
    \/ \E task \in AgentTasks : fix_code_start(task)
    \/ \E assistant_message \in service : create_returns(assistant_message)
    \/ handle_tool_call
    \/ fix_code_left

SpecAgent == InitAgent /\ [][NextAgent]_vars

(***************************************************************************)
(* get_next_client called by two threads on one agent. Nothing in lines    *)
(* 270-275 orders them, so the reads and the write of the cursor of one    *)
(* call interleave freely with those of the other.                         *)
(***************************************************************************)
MaxClients == 3

Threads == {1, 2}

\* self.clients of an agent built from n distinct keys
KeyRing(n) == [i \in 1..n |-> [j \in 1..i |-> "k"]]

\* a thread outside get_next_client
Outside == [at |-> "out", client |-> <<>>, client_num |-> 0, loaded |-> 0]

\* everything but the rotator and the threads using it
besides_rotor ==
    <<pc, buggy_code, max_iterations, g_test_cases, g_previous_code, logs,
      messages, iteration_count, retry_attempt, api_attempt, temperature,
      response, tc_index, tool_was_called, final_code, consecutive_failures,
      tool_result, exec_result, outcome, returned, service, service_calls,
      executions, trail, verbose, g_observer, glitches, outage, escaped,
      clients, session_no, rivals, g_owner, summary, results>>

InitRace ==
    /\ pc = "idle"
    /\ clients \in {KeyRing(n) : n \in 1..MaxClients}
    /\ callers = [t \in Threads |-> Outside]
    /\ current_client_index = 0
    /\ dispensed = <<>>
    /\ max_iterations = 1
    /\ verbose = FALSE
    /\ logs = <<>>
    /\ session_no = 0
    /\ summary = None
    /\ results = NoResults
    /\ rivals = <<>>
    /\ g_owner = 0
    /\ buggy_code = <<>>
    /\ g_test_cases = <<>>
    /\ g_previous_code = None
    /\ g_observer = FALSE
    /\ messages = <<>>
    /\ iteration_count = 0
    /\ retry_attempt = 0
    /\ api_attempt = 0
    /\ temperature = 0
    /\ response = None
    /\ tc_index = 0
    /\ tool_was_called = FALSE
    /\ final_code = None
    /\ consecutive_failures = 0
    /\ tool_result = None
    /\ exec_result = None
    /\ outcome = ""
    /\ escaped = ""
    /\ returned = None
    /\ service = {}
    /\ service_calls = 0
    /\ executions = 0
    /\ trail = <<>>
    /\ glitches = 0
    /\ outage = FALSE

\* calls begun so far: finished ones and those in progress
CallsBegun == Len(dispensed) + Cardinality({t \in Threads : callers[t].at # "out"})

\* thread t calls self.get_next_client()
get_next_client_enter(t) ==
    /\ callers[t].at = "out"
    /\ CallsBegun < MaxCalls
    /\ callers' = [callers EXCEPT ![t] = [Outside EXCEPT !.at = "272"]]
    /\ UNCHANGED <<current_client_index, dispensed, besides_rotor>>

\* line 272: client = self.clients[self.current_client_index]
get_next_client_272(t) ==
    /\ callers[t].at = "272"
    /\ callers' = [callers EXCEPT ![t].client = clients[current_client_index + 1],
                                  ![t].at = "273"]
    /\ UNCHANGED <<current_client_index, dispensed, besides_rotor>>

\* line 273: client_num = self.current_client_index + 1
get_next_client_273(t) ==
    /\ callers[t].at = "273"
    /\ callers' = [callers EXCEPT ![t].client_num = current_client_index + 1,
                                  ![t].at = "274"]
    /\ UNCHANGED <<current_client_index, dispensed, besides_rotor>>

\* line 274, right-hand side: self.current_client_index is read
get_next_client_274_load(t) ==
    /\ callers[t].at = "274"
    /\ callers' = [callers EXCEPT ![t].loaded = current_client_index,
                                  ![t].at = "274 store"]
    /\ UNCHANGED <<current_client_index, dispensed, besides_rotor>>

\* line 274, assignment: (value read + 1) % len(self.clients) is stored
get_next_client_274_store(t) ==
    /\ callers[t].at = "274 store"
    /\ current_client_index' = (callers[t].loaded + 1) % Len(clients)
    /\ callers' = [callers EXCEPT ![t].at = "275"]
    /\ UNCHANGED <<dispensed, besides_rotor>>

\* line 275: return client, client_num
get_next_client_275(t) ==
    /\ callers[t].at = "275"
    /\ dispensed' = Append(dispensed,
           [client |-> callers[t].client, client_num |-> callers[t].client_num,
            session |-> t])
    /\ callers' = [callers EXCEPT ![t] = Outside]
    /\ UNCHANGED <<current_client_index, besides_rotor>>

NextRace ==
    \E t \in Threads :
        \/ get_next_client_enter(t)
        \/ get_next_client_272(t)
        \/ get_next_client_273(t)
        \/ get_next_client_274_load(t)
        \/ get_next_client_274_store(t)
        \/ get_next_client_275(t)

SpecRace == InitRace /\ [][NextRace]_vars

(***************************************************************************)
(* fix_code running in two threads of one process, each on an agent and a  *)
(* task of its own. _test_cases, _observer and _previous_code are module   *)
(* globals: each fix_code assigns them at its start (lines 303-307) and    *)
(* every run_code_tool call reads whatever they hold at that moment. A     *)
(* thread can be overtaken between any two of its reads and writes of the  *)
(* globals, so each of them is a step; `at` is the line the thread is at.  *)
(***************************************************************************)
\* run_code_tool calls of both threads together
MaxSubmits == 2

\* the assertion list of the task each thread calls fix_code with
RivalTasks == <<(<<T1, T2>>), (<<T3>>)>>

\* a thread that has not called fix_code yet
NotStarted ==
    [at |-> "out", test_cases |-> <<>>, own_previous |-> None, log |-> <<>>,
     submissions |-> <<>>, code |-> <<>>, compared_with |-> None,
     tests_seen |-> <<>>, observers |-> {}]

\* everything but the module globals and the threads in fix_code
besides_globals ==
    <<pc, buggy_code, max_iterations, logs, current_client_index, messages,
      iteration_count, retry_attempt, api_attempt, temperature, response,
      tc_index, tool_was_called, final_code, consecutive_failures, tool_result,
      exec_result, outcome, returned, service, service_calls, executions, trail,
      verbose, glitches, outage, escaped, clients, dispensed, session_no,
      callers, summary, results>>

InitShared ==
    /\ pc = "idle"
    /\ rivals = [t \in Threads |-> NotStarted]
    /\ g_owner = 0
    /\ g_test_cases = <<>>
    /\ g_previous_code = None
    /\ g_observer = FALSE
    /\ callers = <<>>
    /\ clients = Clients
    /\ current_client_index = 0
    /\ dispensed = <<>>
    /\ max_iterations = 1
    /\ verbose = FALSE
    /\ logs = <<>>
    /\ session_no = 0
    /\ summary = None
    /\ results = NoResults
    /\ buggy_code = <<>>
    /\ messages = <<>>
    /\ iteration_count = 0
    /\ retry_attempt = 0
    /\ api_attempt = 0
    /\ temperature = 0
    /\ response = None
    /\ tc_index = 0
    /\ tool_was_called = FALSE
    /\ final_code = None
    /\ consecutive_failures = 0
    /\ tool_result = None
    /\ exec_result = None
    /\ outcome = ""
    /\ escaped = ""
    /\ returned = None
    /\ service = {}
    /\ service_calls = 0
    /\ executions = 0
    /\ trail = <<>>
    /\ glitches = 0
    /\ outage = FALSE

\* lines 294-301 in thread t: the observer of t's agent starts its session
\* and logs FIX_START; the thread is then in the prints of lines 297-301,
\* before any global is assigned
rival_fix_code_start(t, test_cases) ==
    /\ rivals[t].at = "out"
    /\ rivals' = [rivals EXCEPT
           ![t].at = "298",
           ![t].test_cases = test_cases,
           ![t].log = <<LogEntry("SESSION_START", "INFO", "Starting task: {task_id}"),
                        LogEntry("FIX_START", "AGENT", "Starting code fix with Together AI")>>]
    /\ UNCHANGED <<g_test_cases, g_observer, g_previous_code, g_owner, besides_globals>>

\* lines 305-307 in thread t, one assignment in each step: _test_cases,
\* then _observer, then _previous_code
rival_fix_code_305_307(t) ==
    /\ rivals[t].at \in {"298", "306", "307"}
    /\ CASE rivals[t].at = "298" ->
              /\ g_test_cases' = rivals[t].test_cases
              /\ rivals' = [rivals EXCEPT ![t].at = "306"]
              /\ UNCHANGED <<g_observer, g_owner, g_previous_code>>
         [] rivals[t].at = "306" ->
              /\ g_observer' = TRUE
              /\ g_owner' = t
              /\ rivals' = [rivals EXCEPT ![t].at = "307"]
              /\ UNCHANGED <<g_test_cases, g_previous_code>>
         [] rivals[t].at = "307" ->
              /\ g_previous_code' = None
              /\ rivals' = [rivals EXCEPT ![t].at = "398"]
              /\ UNCHANGED <<g_test_cases, g_observer, g_owner>>
    /\ UNCHANGED besides_globals

\* line 398 in thread t: AGENT_RUN goes to the observer of t's agent
\* (self.observer); the thread then waits for the service
rival_fix_code_398(t) ==
    /\ rivals[t].at = "398"
    /\ rivals' = [rivals EXCEPT
           ![t].at = "in",
           ![t].log = Append(@, LogEntry("AGENT_RUN", "AGENT",
                                         "Running Together AI agent..."))]
    /\ UNCHANGED <<g_test_cases, g_observer, g_previous_code, g_owner, besides_globals>>

\* _observer.log(entry): the entry is added to the log of the thread whose
\* observer _observer is at that moment
logged_to_owner(threads, entry) ==
    [u \in Threads |->
        IF u = g_owner THEN [threads[u] EXCEPT !.log = Append(@, entry)]
        ELSE threads[u]]

\* the verdict of the thread's latest submission was accepted
rival_accepted(t) ==
    /\ rivals[t].submissions # <<>>
    /\ rivals[t].submissions[Len(rivals[t].submissions)].verdict.success

\* the run_code_tool calls the threads have made so far, the running ones
\* included
SubmissionsBegun ==
    LET begun(u) == Len(rivals[u].submissions)
                       + (IF rivals[u].at \in {"out", "298", "306", "307", "398",
                                               "in", "returned"}
                          THEN 0 ELSE 1)
    IN  begun(1) + begun(2)

\* lines 581-584 and 87 in thread t: a response invokes run_code with `code`,
\* and run_code_tool reads _previous_code for `is not None`
rival_run_code_tool_enter(t, code) ==
    /\ rivals[t].at = "in"
    /\ ~ rival_accepted(t)
    /\ SubmissionsBegun < MaxSubmits
    /\ rivals' = [rivals EXCEPT
           ![t].code = code,
           ![t].compared_with = None,
           ![t].tests_seen = <<>>,
           ![t].observers = {},
           ![t].at = IF g_previous_code = None THEN "105" ELSE "87"]
    /\ UNCHANGED <<g_test_cases, g_observer, g_previous_code, g_owner, besides_globals>>

\* line 87, right operand: _previous_code is read again for .strip(); None
\* (another fix_code has passed line 307 meanwhile) has no strip, and the
\* AttributeError leaves run_code_tool and fix_code
rival_run_code_tool_87(t) ==
    /\ rivals[t].at = "87"
    /\ rivals' = [rivals EXCEPT
           ![t].compared_with = g_previous_code,
           ![t].at = IF g_previous_code = None THEN "raised"
                     ELSE IF same_submission(rivals[t].code, g_previous_code) THEN "96"
                     ELSE "105"]
    /\ UNCHANGED <<g_test_cases, g_observer, g_previous_code, g_owner, besides_globals>>

\* the submission of thread t that run_code_tool has answered with `verdict`;
\* own_previous is what _previous_code would hold were the session alone
rival_answered(threads, t, executed, observers, verdict) ==
    [threads EXCEPT
       ![t].at = "in",
       ![t].own_previous =
           run_code_tool(rivals[t].code, rivals[t].own_previous,
                         rivals[t].test_cases).previous_code,
       ![t].submissions = Append(@,
           [code |-> rivals[t].code,
            executed |-> executed,
            tests |-> rivals[t].tests_seen,
            compared_with |-> rivals[t].compared_with,
            own_previous |-> rivals[t].own_previous,
            observers |-> observers,
            verdict |-> verdict])]

\* lines 95-102 in thread t: DUPLICATE_CODE is logged to _observer and the
\* duplicate verdict returned
rival_run_code_tool_96(t) ==
    /\ rivals[t].at = "96"
    /\ LET ran == run_code_tool(rivals[t].code, rivals[t].compared_with, <<>>)
       IN  rivals' = rival_answered(logged_to_owner(rivals, ran.logged[1]), t,
                                    FALSE, {g_owner}, ran.verdict)
    /\ UNCHANGED <<g_test_cases, g_observer, g_previous_code, g_owner, besides_globals>>

\* line 105 in thread t: _previous_code = code
rival_run_code_tool_105(t) ==
    /\ rivals[t].at = "105"
    /\ g_previous_code' = Some(rivals[t].code)
    /\ rivals' = [rivals EXCEPT ![t].at = "108"]
    /\ UNCHANGED <<g_test_cases, g_observer, g_owner, besides_globals>>

\* lines 108 and 109 in thread t, one entry in each step: TOOL_CALLED, then
\* TOOL_EXECUTE, each to the observer _observer is when it is logged; the
\* prints of lines 110-119 follow
rival_run_code_tool_108_109(t) ==
    /\ rivals[t].at \in {"108", "109"}
    /\ rivals' = [logged_to_owner(rivals,
                      tool_called[IF rivals[t].at = "108" THEN 1 ELSE 2]) EXCEPT
           ![t].observers = @ \cup {g_owner},
           ![t].at = IF rivals[t].at = "108" THEN "109" ELSE "141"]
    /\ UNCHANGED <<g_test_cases, g_observer, g_previous_code, g_owner, besides_globals>>

\* lines 121-141 in thread t: the candidate has valid syntax, _test_cases is
\* read and handed to execute_code
rival_run_code_tool_141(t) ==
    /\ rivals[t].at = "141"
    /\ validate_code(rivals[t].code)
    /\ rivals' = [rivals EXCEPT ![t].tests_seen = g_test_cases, ![t].at = "186"]
    /\ UNCHANGED <<g_test_cases, g_observer, g_previous_code, g_owner, besides_globals>>

\* lines 142-193 in thread t: ALL_PASS or TESTS_FAILED is logged to _observer
\* and the verdict returned
rival_run_code_tool_returns(t) ==
    /\ rivals[t].at = "186"
    /\ LET ran == run_code_tool(rivals[t].code, None, rivals[t].tests_seen)
       IN  /\ ran.raises = ""
           /\ rivals' = rival_answered(
                  logged_to_owner(rivals, ran.logged[Len(ran.logged)]), t,
                  TRUE, rivals[t].observers \cup {g_owner}, ran.verdict)
    /\ UNCHANGED <<g_test_cases, g_observer, g_previous_code, g_owner, besides_globals>>

\* lines 615-623 and 651-659 in thread t: fix_code returns, after an
\* accepted verdict or when its loop has ended; the entry goes to the
\* observer of t's agent
rival_fix_code_returns(t) ==
    /\ rivals[t].at = "in"
    /\ LET last == rivals[t].submissions[Len(rivals[t].submissions)]
           entry ==
               IF rival_accepted(t)
               THEN LogEntry("FIX_SUCCESS", "SUCCESS",
                             "Code fix completed - all tests passed")
               ELSE IF rivals[t].submissions # <<>> /\ len(last.code) > MinReturnLength
               THEN LogEntry("FIX_PARTIAL", "ERROR",
                             "Returning last submitted code (tests may not pass)")
               ELSE LogEntry("FIX_FAILED", "ERROR", "Could not fix code")
       IN  rivals' = [rivals EXCEPT ![t].at = "returned", ![t].log = Append(@, entry)]
    /\ UNCHANGED <<g_test_cases, g_observer, g_previous_code, g_owner, besides_globals>>

NextShared ==
    \E t \in Threads :
        \/ rival_fix_code_start(t, RivalTasks[t])
        \/ rival_fix_code_305_307(t)
        \/ rival_fix_code_398(t)
        \/ \E code \in {<<MINUS>>, <<PLUS>>} : rival_run_code_tool_enter(t, code)
        \/ rival_run_code_tool_87(t)
        \/ rival_run_code_tool_96(t)
        \/ rival_run_code_tool_105(t)
        \/ rival_run_code_tool_108_109(t)
        \/ rival_run_code_tool_141(t)
        \/ rival_run_code_tool_returns(t)
        \/ rival_fix_code_returns(t)

SpecShared == InitShared /\ [][NextShared]_vars

(***************************************************************************)
(* Sessions long enough to leave the early iterations: up to MaxLongIter   *)
(* iterations on one task, with a service that answers every call and      *)
(* never submits an accepted candidate.                                    *)
(***************************************************************************)
MaxLongIter == 5

LongTasks ==
    [buggy_code : {BUGGY}, test_cases : {<<T1>>},
     service : {{Text, One(<<MINUS>>), One(<<NONE>>), One(<<BADSYN>>),
                 Calls(<<Submit(<<MINUS>>), Submit(<<NONE>>)>>)}}]

InitLong ==
    /\ pc = "idle"
    /\ max_iterations \in 1..MaxLongIter
    /\ verbose = FALSE
    /\ logs = <<>>
    /\ current_client_index = 0
    /\ clients = Clients
    /\ dispensed = <<>>
    /\ session_no = 0
    /\ summary = None
    /\ results = NoResults
    /\ callers = <<>>
    /\ rivals = <<>>
    /\ g_owner = 0
    /\ buggy_code = <<>>
    /\ g_test_cases = <<>>
    /\ g_previous_code = None
    /\ g_observer = FALSE
    /\ messages = <<>>
    /\ iteration_count = 0
    /\ retry_attempt = 0
    /\ api_attempt = 0
    /\ temperature = 0
    /\ response = None
    /\ tc_index = 0
    /\ tool_was_called = FALSE
    /\ final_code = None
    /\ consecutive_failures = 0
    /\ tool_result = None
    /\ exec_result = None
    /\ outcome = ""
    /\ escaped = ""
    /\ returned = None
    /\ service = {}
    /\ service_calls = 0
    /\ executions = 0
    /\ trail = <<>>
    /\ glitches = 0
    /\ outage = FALSE

NextLong ==
    \/ \E task \in LongTasks : fix_code_start(task)
    \/ \E assistant_message \in service : create_returns(assistant_message)
    \/ handle_tool_call

SpecLong == InitLong /\ [][NextLong]_vars

(***************************************************************************)
(* One agent running fix_code for one task after another, the tasks having *)
(* different assertion lists. The service answers every call with one      *)
(* submission.                                                             *)
(***************************************************************************)
SessionTasks ==
    [buggy_code : {BUGGY}, test_cases : {<<T1, T2>>, <<T3>>},
     service : {{One(<<PLUS>>), One(<<MINUS>>), One(<<MINUS, "\n">>)}}]

InitSessions ==
    /\ pc = "idle"
    /\ max_iterations \in 1..2
    /\ verbose = FALSE
    /\ logs = <<>>
    /\ current_client_index = 0
    /\ clients = Clients
    /\ dispensed = <<>>
    /\ session_no = 0
    /\ summary = None
    /\ results = NoResults
    /\ callers = <<>>
    /\ rivals = <<>>
    /\ g_owner = 0
    /\ buggy_code = <<>>
    /\ g_test_cases = <<>>
    /\ g_previous_code = None
    /\ g_observer = FALSE
    /\ messages = <<>>
    /\ iteration_count = 0
    /\ retry_attempt = 0
    /\ api_attempt = 0
    /\ temperature = 0
    /\ response = None
    /\ tc_index = 0
    /\ tool_was_called = FALSE
    /\ final_code = None
    /\ consecutive_failures = 0
    /\ tool_result = None
    /\ exec_result = None
    /\ outcome = ""
    /\ escaped = ""
    /\ returned = None
    /\ service = {}
    /\ service_calls = 0
    /\ executions = 0
    /\ trail = <<>>
    /\ glitches = 0
    /\ outage = FALSE

NextSessions ==
    \/ \E task \in SessionTasks : fix_code_start(task)
    \/ \E assistant_message \in service : create_returns(assistant_message)
    \/ handle_tool_call
    \/ fix_code_left

SpecSessions == InitSessions /\ [][NextSessions]_vars

(***************************************************************************)
(* evaluate_agent (src/eval_humanevalfix.py lines 61-185): the evaluation  *)
(* driver calls fix_code on one problem after the other, verifies what it  *)
(* returned with an executor of its own, and counts the problem as passed  *)
(* or failed.                                                              *)
(***************************************************************************)
EvalTasks ==
    [buggy_code : {BUGGY}, test_cases : {<<T1, T2>>, <<>>, <<T2, TSET, TGET>>},
     service : {{Text, One(<<PLUS>>), One(<<MINUS>>), One(<<EXIT>>),
                 One(<<METHOD>>), Calls(<<ToolCall("run_code", ArgsMalformed)>>)}}]

\* lines 121-129: success, from the result of executor.execute_code
counts_as_passed(result) ==
    IF result.tests_total = 0 \/ ~ result.success
    THEN FALSE
    ELSE result.tests_passed = result.tests_total

\* lines 131-169: the counters and the details after one problem, where
\* `raised` is "" or the class of the exception raised inside the try block
\* and `fixed_code` is what fix_code returned (None when it raised); a
\* problem is named by its assertions
count_problem(counted, task_id, fixed_code, raised, result) ==
    LET detail(success) == [task_id |-> task_id, success |-> success,
                            fixed_code |-> fixed_code, raised |-> raised]
    IN  IF raised = Never THEN [counted EXCEPT !.at = "hung"]
        ELSE IF raised \in BaseExceptions THEN [counted EXCEPT !.at = "stopped"]
        ELSE IF raised # ""
        THEN [counted EXCEPT !.failed = @ + 1, !.details = Append(@, detail(FALSE))]
        ELSE IF counts_as_passed(result)
        THEN [counted EXCEPT !.passed = @ + 1, !.details = Append(@, detail(TRUE))]
        ELSE [counted EXCEPT !.failed = @ + 1, !.details = Append(@, detail(FALSE))]

\* lines 103-170: the try block from the point where agent.fix_code is left
evaluate_agent_counts ==
    /\ pc \in {"done", "hung"}
    /\ results.at = "running"
    /\ LET verified == IF pc = "hung" THEN [raises |-> Never, result |-> EmptyResult]
                       ELSE IF escaped # "" THEN [raises |-> escaped, result |-> EmptyResult]
                       ELSE execute_code(returned[1], g_test_cases)
       IN  /\ results' = count_problem(results, g_test_cases, returned, verified.raises,
                                        verified.result)
           /\ exec_result' = Some(verified)
           /\ pc' = IF results'.at = "running" THEN "idle" ELSE pc
    /\ outcome' = ""
    /\ escaped' = ""
    /\ returned' = None
    /\ tool_result' = None
    /\ response' = None
    /\ tc_index' = 0
    /\ service_calls' = 0
    /\ executions' = 0
    /\ trail' = <<>>
    /\ outage' = FALSE
    /\ UNCHANGED <<session_inputs, g_previous_code, g_observer, logs, messages,
                   iteration_count, retry_attempt, api_attempt, temperature,
                   tool_was_called, final_code, consecutive_failures, glitches,
                   current_client_index, dispensed, concurrent, summary>>

NextEval ==
    \/ /\ session_no < MaxSessions
       /\ results.at = "running"
       /\ \E task \in EvalTasks : fix_code_start(task)
    \/ \E assistant_message \in service : create_returns(assistant_message)
    \/ handle_tool_call
    \/ evaluate_agent_counts

SpecEval == InitSessions /\ [][NextEval]_vars

(***************************************************************************)
(* AgentObserver on its own (lines 13-51): start_session, log and          *)
(* get_summary called in any order by the owner of the observer.           *)
(***************************************************************************)
MaxLogs == 4

\* lines 21-24: the log after start_session(task_id)
start_session_clearing(log, task_id) ==
    <<LogEntry("SESSION_START", "INFO", "Starting task: {task_id}")>>

start_session(log, task_id) ==
    Append(log, LogEntry("SESSION_START", "INFO", "Starting task: {task_id}"))

\* lines 26-39: the log after log(action, message, level)
AgentObserver_log_latest_first(log, action, message, level) ==
    <<LogEntry(action, level, message)>> \o log

AgentObserver_log(log, action, message, level) ==
    Append(log, LogEntry(action, level, message))

RECURSIVE errors_of(_)
errors_of(log) ==
    IF log = <<>> THEN <<>>
    ELSE (IF Head(log).level = "ERROR" THEN <<Head(log)>> ELSE <<>>)
         \o errors_of(Tail(log))

\* lines 53-60: the dictionary get_summary returns (total_time left out)
get_summary(log) ==
    [total_logs |-> Len(log),
     actions    |-> [k \in 1..Len(log) |-> log[k].action],
     errors     |-> errors_of(log)]

besides_observer ==
    <<pc, buggy_code, max_iterations, g_test_cases, g_previous_code,
      current_client_index, messages, iteration_count, retry_attempt,
      api_attempt, temperature, response, tc_index, tool_was_called,
      final_code, consecutive_failures, tool_result, exec_result, outcome,
      returned, service, service_calls, executions, trail, verbose,
      g_observer, glitches, outage, escaped, clients, dispensed, session_no,
      callers, rivals, g_owner, results>>

InitObserver ==
    /\ pc = "observer"
    /\ logs = <<>>
    /\ summary = None
    /\ results = NoResults
    /\ verbose \in BOOLEAN
    /\ max_iterations = 1
    /\ current_client_index = 0
    /\ clients = Clients
    /\ dispensed = <<>>
    /\ session_no = 0
    /\ callers = <<>>
    /\ rivals = <<>>
    /\ g_owner = 0
    /\ buggy_code = <<>>
    /\ g_test_cases = <<>>
    /\ g_previous_code = None
    /\ g_observer = FALSE
    /\ messages = <<>>
    /\ iteration_count = 0
    /\ retry_attempt = 0
    /\ api_attempt = 0
    /\ temperature = 0
    /\ response = None
    /\ tc_index = 0
    /\ tool_was_called = FALSE
    /\ final_code = None
    /\ consecutive_failures = 0
    /\ tool_result = None
    /\ exec_result = None
    /\ outcome = ""
    /\ escaped = ""
    /\ returned = None
    /\ service = {}
    /\ service_calls = 0
    /\ executions = 0
    /\ trail = <<>>
    /\ glitches = 0
    /\ outage = FALSE

observer_start_session ==
    /\ pc = "observer"
    /\ Len(logs) < MaxLogs
    /\ logs' = start_session(logs, "task")
    /\ UNCHANGED <<summary, besides_observer>>

observer_log(action, level) ==
    /\ pc = "observer"
    /\ Len(logs) < MaxLogs
    /\ logs' = AgentObserver_log(logs, action, "message", level)
    /\ UNCHANGED <<summary, besides_observer>>

observer_get_summary ==
    /\ pc = "observer"
    /\ summary' = Some(get_summary(logs))
    /\ UNCHANGED <<logs, besides_observer>>

NextObserver ==
    \/ observer_start_session
    \/ \E action \in {"TOOL_CALLED", "API_ERROR"}, level \in {"TOOL", "ERROR"} :
          observer_log(action, level)
    \/ observer_get_summary

SpecObserver == InitObserver /\ [][NextObserver]_vars

(***************************************************************************)
(* The tool and the session side by side, with a log that someone else     *)
(* writes to as well: run_code_tool called directly on the freshly         *)
(* imported module, where _observer is None (line 65), or from fix_code,   *)
(* which has installed self.observer (line 306), in a program with a       *)
(* second thread that holds agent.observer and calls its log() (lines      *)
(* 26-39) once, at any moment: before, between, during or after the steps  *)
(* of fix_code (see heard), while a candidate loops, or when fix_code is   *)
(* left.                                                                   *)
(***************************************************************************)
observer_log_elsewhere ==
    /\ rivals # <<>>
    /\ Unheard(logs)
    /\ logs' = AgentObserver_log(logs, "NOTE", "message", "ERROR")
    /\ UNCHANGED <<summary, besides_observer>>

\* the agent after __init__, and a second thread that has not called fix_code
InitWatchedAgent ==
    /\ pc = "idle"
    /\ max_iterations \in 1..MaxIter
    /\ verbose \in BOOLEAN
    /\ logs = <<>>
    /\ current_client_index = 0
    /\ clients = Clients
    /\ dispensed = <<>>
    /\ session_no = 0
    /\ summary = None
    /\ results = NoResults
    /\ callers = <<>>
    /\ rivals = <<NotStarted>>
    /\ g_owner = 0
    /\ buggy_code = <<>>
    /\ g_test_cases = <<>>
    /\ g_previous_code = None
    /\ messages = <<>>
    /\ iteration_count = 0
    /\ retry_attempt = 0
    /\ api_attempt = 0
    /\ temperature = 0
    /\ response = None
    /\ tc_index = 0
    /\ tool_was_called = FALSE
    /\ final_code = None
    /\ consecutive_failures = 0
    /\ tool_result = None
    /\ exec_result = None
    /\ outcome = ""
    /\ escaped = ""
    /\ returned = None
    /\ service = {}
    /\ service_calls = 0
    /\ executions = 0
    /\ trail = <<>>
    /\ glitches = 0
    /\ outage = FALSE
    /\ g_observer = FALSE

InitWatched == InitWatchedAgent \/ InitTool

NextWatched ==
    \/ Next
    \/ NextTool
    \/ observer_log_elsewhere

SpecWatched == InitWatched /\ [][NextWatched]_vars

(***************************************************************************)
(* Properties.                                                             *)
(***************************************************************************)
Done == pc = "done"

\* the entry of the trail is a verdict of the duplicate-submission guard
IsDuplicate(entry) ==
    entry.verdict # None /\ "duplicate_submission" \in DOMAIN entry.verdict

IsAccepted(entry) == entry.verdict # None /\ entry.verdict.success

\* tests_passed and tests_total as the caller reads them (lines 142-143, 612)
PassedOf(verdict) ==
    IF "tests_passed" \in DOMAIN verdict THEN verdict.tests_passed ELSE 0
TotalOf(verdict) ==
    IF "tests_total" \in DOMAIN verdict THEN verdict.tests_total ELSE 0

\* the index of the last entry before k that submitted code, 0 when none did
RECURSIVE LastSubmission(_)
LastSubmission(k) ==
    IF k <= 1 THEN 0
    ELSE IF trail[k - 1].code # <<>> THEN k - 1
    ELSE LastSubmission(k - 1)

\* the number of assistant messages of the transcript
RECURSIVE Responses(_)
Responses(msgs) ==
    IF msgs = <<>> THEN 0
    ELSE (IF Head(msgs).role = "assistant" THEN 1 ELSE 0) + Responses(Tail(msgs))

\* C1: an accepted verdict ends the session at once: the accepted submission
\* is the last one handled, fix_code has returned exactly its code, and no
\* service call and no execution was made after it.
C1_AcceptedEndsSession ==
    \A k \in 1..Len(trail) :
        IsAccepted(trail[k]) =>
            /\ k = Len(trail)
            /\ Done /\ outcome = "SUCCESS" /\ escaped = ""
            /\ returned = Some(trail[k].code)
            /\ service_calls = trail[k].service_calls

C1_Witness ==
    /\ Done /\ outcome = "SUCCESS"
    /\ Len(trail) >= 2
    /\ trail[Len(trail)].iteration >= 1
    /\ returned = Some(<<PLUS>>)

\* C2: when every attempt of a request fails, no exception leaves fix_code and
\* it returns the last candidate or the original code.
C2_AbortReturns ==
    (Done /\ outage) =>
        /\ escaped = ""
        /\ outcome = "ABORTED"
        /\ returned \in {final_code, Some(buggy_code)}

\* C3: a fault raised while the candidate or an assertion runs is captured by
\* execute_code and reported as a verdict: none leaves execute_code,
\* run_code_tool or fix_code.
C3_FaultsCaptured ==
    /\ exec_result # None => exec_result[1].raises = ""
    /\ escaped \notin BaseExceptions

\* C4: a response carrying an action invocation, also one whose arguments are
\* no well-formed mapping (text that does not parse, or a value without code
\* and reason), never makes fix_code raise: fix_code returns a source. Stated
\* for sessions in which no candidate ended the process.
C4_MalformedHandled ==
    (Done /\ response # None /\ response[1].tool_calls # <<>>
      /\ escaped \notin BaseExceptions) =>
        (escaped = "" /\ returned # None)

\* C5: when every service call returns and no candidate ends the process, the
\* session reaches one terminal outcome (SUCCESS, EXHAUSTED or ABORTED) and
\* returns, having processed at most max_iterations responses with at most
\* 9 call attempts for each. The loop left at a response without tool call
\* (line 649) returns through lines 651-659 like an exhausted budget and is
\* counted with the terminal outcomes here.
C5_Terminates ==
    (glitches = 0 /\ ~ outage /\ escaped \notin BaseExceptions) =>
        /\ Responses(messages) <= max_iterations
        /\ service_calls <= max_retries * api_retry_count * max_iterations
        /\ Done => /\ outcome \in {"SUCCESS", "EXHAUSTED", "CONCLUDED", "ABORTED"}
                   /\ escaped = ""
                   /\ returned # None

\* every response of the session carried exactly one submission, none accepted
OneSubmissionEach ==
    /\ Len(trail) = Responses(messages)
    /\ \A k \in 1..Len(trail) : trail[k].iteration = k - 1 /\ ~ IsAccepted(trail[k])

\* C6 as claimed: the session ends EXHAUSTED after exactly max_iterations
\* executions of a candidate; submissions stopped by the duplicate guard do
\* not count.
C6_Original ==
    (Done /\ outcome = "EXHAUSTED" /\ OneSubmissionEach
      /\ \A k \in 1..Len(trail) : trail[k].executed \/ IsDuplicate(trail[k])) =>
        executions = max_iterations

\* C6 as amended: the session ends EXHAUSTED after exactly max_iterations
\* responses; a response whose submission is stopped by the duplicate guard
\* uses up one iteration like any other, so the executions are
\* max_iterations less the submissions that were not executed.
C6_BudgetCountsResponses ==
    (Done /\ outcome = "EXHAUSTED") =>
        /\ Responses(messages) = max_iterations
        /\ iteration_count = max_iterations - 1
        /\ OneSubmissionEach =>
              executions = max_iterations
                  - Cardinality({k \in 1..Len(trail) : ~ trail[k].executed})

C6_Witness ==
    /\ Done /\ outcome = "EXHAUSTED" /\ OneSubmissionEach
    /\ max_iterations = 3
    /\ executions = 2
    /\ \E k \in 1..Len(trail) : IsDuplicate(trail[k])

\* C7 as claimed: a submission equal, up to surrounding whitespace, to any
\* earlier submission of the session gets the stuck-signal verdict and is
\* not executed.
C7_Original ==
    \A k \in 1..Len(trail) : \A j \in 1..(k - 1) :
        (trail[k].code # <<>> /\ strip(trail[k].code) = strip(trail[j].code)) =>
            (IsDuplicate(trail[k]) /\ ~ trail[k].verdict.success
             /\ ~ trail[k].executed)

\* C7 as amended: a submission equal, up to surrounding whitespace, to the
\* most recent earlier submission that carried code gets the stuck-signal
\* verdict and is not executed.
C7_DuplicateOfPrevious ==
    \A k \in 1..Len(trail) :
        (/\ LastSubmission(k) # 0
         /\ trail[k].code # <<>>
         /\ strip(trail[k].code) = strip(trail[LastSubmission(k)].code)) =>
            (IsDuplicate(trail[k]) /\ ~ trail[k].verdict.success
             /\ ~ trail[k].executed)

C7_Witness ==
    \E k \in 2..Len(trail) :
        /\ IsDuplicate(trail[k])
        /\ trail[k].code # trail[k - 1].code
        /\ strip(trail[k].code) = strip(trail[k - 1].code)

\* the first submission with the highest tests_passed, 0 when none passed a test
RECURSIVE BestSubmission(_)
BestSubmission(k) ==
    IF k = 0 THEN 0
    ELSE LET before == BestSubmission(k - 1)
             mine   == IF trail[k].verdict = None THEN 0
                       ELSE PassedOf(trail[k].verdict)
         IN  IF mine > 0 /\ (before = 0 \/ mine > PassedOf(trail[before].verdict))
             THEN k ELSE before

\* C8: a session that ends without an accepted verdict returns the submission
\* with the highest tests_passed, or the original code when none passed a
\* test; never a later one that passed fewer. Stated for the sessions that
\* return a value: one that an exception leaves returns nothing.
C8_ReturnsBestCandidate ==
    (Done /\ escaped = "" /\ outcome # "SUCCESS") =>
        returned = IF BestSubmission(Len(trail)) = 0 THEN Some(buggy_code)
                   ELSE Some(trail[BestSubmission(Len(trail))].code)

\* the candidate of the last run_code_tool call was executed without a fault
RanWithoutFault ==
    exec_result # None /\ exec_result[1].raises = "" /\ exec_result[1].result.success

\* C9 as claimed: a verdict has success = true iff tests_total > 0, tests_passed
\* = tests_total and the candidate executed without a runtime fault, for every
\* assertion list, the empty one included.
C9_Original ==
    tool_result # None =>
        (tool_result[1].success <=>
            /\ TotalOf(tool_result[1]) > 0
            /\ PassedOf(tool_result[1]) = TotalOf(tool_result[1])
            /\ RanWithoutFault)

\* C9 as amended: for a non-empty assertion list a verdict has success = true
\* iff tests_total > 0, tests_passed = tests_total and the candidate executed
\* without a runtime fault; for the empty list the verdict carries no counts
\* and has success = true iff the candidate executed without a fault and the
\* stand-in test "pass" was counted as passed.
C9_AcceptedIff ==
    tool_result # None =>
        IF g_test_cases # <<>>
        THEN tool_result[1].success <=>
                /\ TotalOf(tool_result[1]) > 0
                /\ PassedOf(tool_result[1]) = TotalOf(tool_result[1])
                /\ RanWithoutFault
        ELSE /\ "tests_total" \notin DOMAIN tool_result[1]
             /\ tool_result[1].success <=>
                   /\ RanWithoutFault
                   /\ exec_result[1].result.tests_passed = 1
                   /\ exec_result[1].result.tests_total = 1

C9_Witness ==
    /\ tool_result # None /\ tool_result[1].success
    /\ g_test_cases = <<>>
    /\ TotalOf(tool_result[1]) = 0

\* the test list run_code_tool hands to execute_code
Supplied == IF g_test_cases # <<>> THEN g_test_cases ELSE <<TPASS>>

\* C10: every result of execute_code, and every verdict derived from it, has
\* 0 <= tests_passed <= tests_total, with tests_total 0 or the number of
\* assertions supplied.
C10_CountsBounded ==
    /\ (exec_result # None /\ exec_result[1].raises = "") =>
          /\ 0 <= exec_result[1].result.tests_passed
          /\ exec_result[1].result.tests_passed <= exec_result[1].result.tests_total
          /\ exec_result[1].result.tests_total \in {0, Len(Supplied)}
    /\ (tool_result # None /\ "tests_total" \in DOMAIN tool_result[1]) =>
          /\ 0 <= tool_result[1].tests_passed
          /\ tool_result[1].tests_passed <= tool_result[1].tests_total
          /\ tool_result[1].tests_total \in {0, Len(g_test_cases)}

C10_Witness ==
    /\ exec_result # None /\ exec_result[1].raises = ""
    /\ exec_result[1].result.tests_total = 2
    /\ exec_result[1].result.tests_passed = 1
    /\ tool_result # None /\ PassedOf(tool_result[1]) = 1

\* the candidate run_code_tool remembers has invalid syntax
InvalidRemembered == g_previous_code # None /\ ~ compile_ok(g_previous_code[1])

\* C11: for a candidate with invalid syntax and any assertion list the verdict
\* of run_code_tool is not accepted and counts no assertion, and the executor
\* is not invoked; execute_code itself, given such a candidate, returns a
\* result that is not a success, with tests_total = 0 and no assertion run.
C11_InvalidSyntaxRejected ==
    /\ InvalidRemembered =>
          /\ tool_result # None
          /\ ~ tool_result[1].success
          /\ TotalOf(tool_result[1]) = 0 /\ PassedOf(tool_result[1]) = 0
          /\ exec_result = None
    /\ \A code \in Texts :
          ~ compile_ok(code) =>
              LET ran == execute_code(code, g_test_cases) IN
              /\ ran.raises = ""
              /\ ~ ran.result.success
              /\ ran.result.error # None
              /\ ran.result.tests_total = 0 /\ ran.result.tests_passed = 0
              /\ ran.result.passed_tests = <<>> /\ ran.result.failed_tests = <<>>

C11_Witness ==
    /\ g_previous_code = Some(<<RETOUT>>)
    /\ g_test_cases = <<T1, T2>>
    /\ tool_result # None /\ tool_result[1].error.kind = "Syntax Error"

\* the result of execute_code reports a fault of the candidate itself
RuntimeFault(result) ==
    /\ ~ result.success
    /\ result.error # None
    /\ result.error[1].kind \notin {"tests", "Syntax Error"}

\* the diagnostic of a verdict names the fault
CarriesFault(error, fault) ==
    \/ error.kind = fault.kind
    \/ "cause" \in DOMAIN error /\ error.cause = fault

\* C12: for a valid candidate that raises a fault while it is executed, with a
\* non-empty assertion list, the result of execute_code and the verdict of
\* run_code_tool both have tests_total = 0, are not accepted, and carry the
\* fault's kind and message as diagnostic.
C12_FaultDiagnosed ==
    (/\ g_test_cases # <<>>
     /\ exec_result # None /\ exec_result[1].raises = ""
     /\ RuntimeFault(exec_result[1].result)) =>
        /\ exec_result[1].result.tests_total = 0
        /\ exec_result[1].result.error[1].kind = "ValueError"
        /\ tool_result # None
        /\ ~ tool_result[1].success
        /\ TotalOf(tool_result[1]) = 0
        /\ CarriesFault(tool_result[1].error, exec_result[1].result.error[1])

\* an agent has been constructed
AgentExists == pc \notin {"unbuilt", "no_agent"}

\* the cursor before the i-th dispensing
CursorBefore(i) == dispensed[i].client_num - 1

\* C13: get_next_client returns the credential at the cursor with its 1-based
\* ordinal and advances the cursor by one modulo N: 0 <= cursor < N in every
\* state, any N consecutive calls dispense each credential once, in list
\* order, and bring the cursor back; the start of a session does not reset the
\* cursor, so a session's first credential follows the last one dispensed.
C13_RoundRobin ==
    AgentExists =>
        LET N == Len(clients) IN
        /\ N >= 1
        /\ 0 <= current_client_index /\ current_client_index < N
        /\ current_client_index = Len(dispensed) % N
        /\ \A i \in 1..Len(dispensed) :
              /\ CursorBefore(i) = (i - 1) % N
              /\ dispensed[i].client = clients[CursorBefore(i) + 1]
              /\ i < Len(dispensed) =>
                    CursorBefore(i + 1) = (CursorBefore(i) + 1) % N
              /\ i + N - 1 <= Len(dispensed) =>
                    /\ \A k \in 0..(N - 1) :
                          dispensed[i + k].client_num = ((CursorBefore(i) + k) % N) + 1
                    /\ {dispensed[i + k].client_num : k \in 0..(N - 1)} = 1..N
                    /\ (IF i + N <= Len(dispensed) THEN CursorBefore(i + N)
                        ELSE current_client_index) = CursorBefore(i)

C13_Witness ==
    /\ AgentExists
    /\ Len(clients) = 3
    /\ session_no = 2
    /\ \E i \in 2..Len(dispensed) :
          /\ dispensed[i].session = 2 /\ dispensed[i - 1].session = 1
          /\ dispensed[i].client_num = (dispensed[i - 1].client_num % 3) + 1
          /\ dispensed[i].client_num # 1

\* the key string the constructor reads, None when neither the argument nor
\* the environment gives one
KeyGiven(api_key, env_key) ==
    IF api_key # None /\ api_key[1] # <<>> THEN api_key ELSE env_key

\* no key is given, or the key string has commas and blanks only
NoCredential(api_key, env_key) ==
    \/ KeyGiven(api_key, env_key) = None
    \/ \A j \in 1..Len(KeyGiven(api_key, env_key)[1]) :
          KeyGiven(api_key, env_key)[1][j] \in {",", " "}

\* C14: construction fails with ValueError, and leaves no agent, whenever the
\* credential set is empty (no key given, or a key string of commas and
\* blanks only); when it succeeds the credential list is non-empty and has no
\* blank entry.
C14_ConstructionChecked ==
    /\ pc = "no_agent" => (escaped = "ValueError" /\ clients = <<>>)
    /\ AgentExists =>
          /\ clients # <<>>
          /\ \A i \in 1..Len(clients) :
                /\ clients[i] # <<>>
                /\ strip(clients[i]) = clients[i]
                /\ \A j \in 1..Len(clients[i]) : clients[i][j] # ","
    /\ pc \in {"unbuilt", "no_agent"} =>
          \A api_key \in ApiKeys, env_key \in EnvKeys :
              NoCredential(api_key, env_key) =>
                  /\ constructed(api_key, env_key).raises = "ValueError"
                  /\ constructed(api_key, env_key).clients = <<>>

C14_Witness ==
    /\ pc = "no_agent" /\ escaped = "ValueError"
    /\ clients = <<>> /\ dispensed = <<>> /\ session_no = 0

\* C15: concurrent calls of get_next_client are serialized: once the calls
\* have returned the cursor has advanced by their number modulo N, and two
\* calls get the same cursor position only if N calls lie between them.
C15_RotorSerialized ==
    (\A t \in Threads : callers[t].at = "out") =>
        /\ current_client_index = Len(dispensed) % Len(clients)
        /\ \A i, j \in 1..Len(dispensed) :
              (i < j /\ j - i < Len(clients)) =>
                  dispensed[i].client_num # dispensed[j].client_num

\* C16: two interleaved sessions share no mutable session state: every
\* candidate of a session is verified against the assertions of the session's
\* own task, the duplicate guard compares it with the session's own previous
\* submission only, and its log entries go to the session's own observer.
C16_SessionsIsolated ==
    \A t \in DOMAIN rivals :
        \A k \in 1..Len(rivals[t].submissions) :
            LET sub == rivals[t].submissions[k] IN
            /\ sub.executed => sub.tests = rivals[t].test_cases
            /\ sub.compared_with = sub.own_previous
            /\ sub.observers = {t}

\* C17: verification of any candidate terminates: a candidate or an assertion
\* that never finishes is cut off and reported as an execution fault, so
\* execute_code returns for every candidate and no run_code_tool call stays
\* in it.
C17_VerificationTerminates == pc # "hung"

\* filesystem, process and reflection primitives of the builtins module
Primitives == {"open", "__import__", "eval", "exec"}

\* C18: no primitive outside the whitelist is reachable by name from the
\* candidate: a candidate that reads one is stopped by a NameError (an
\* ImportError for an import statement) instead of running.
C18_OnlyWhitelistReachable ==
    (/\ exec_result # None
     /\ g_previous_code # None
     /\ names_used(g_previous_code[1]) \cap Primitives # {}) =>
        /\ exec_result[1].raises = ""
        /\ exec_result[1].result.error # None
        /\ exec_result[1].result.error[1].kind \in {"NameError", "ImportError"}

\* the first response of the session carried no tool call and the corrective
\* instruction of lines 640-643 followed it in the transcript
CorrectiveTurn ==
    /\ Len(messages) >= 4
    /\ messages[3] = Text
    /\ messages[4] = [role |-> "user",
                      content |-> [text |-> "STOP! You did NOT call run_code!"]]

\* C19: the corrective turn after a first response without tool call is not
\* counted in the budget: a session that took it ends EXHAUSTED only after
\* max_iterations more responses, so another request follows the corrective
\* instruction even when max_iterations = 1.
C19_CorrectiveTurnFree ==
    (Done /\ outcome = "EXHAUSTED" /\ CorrectiveTurn) =>
        /\ Responses(messages) = max_iterations + 1
        /\ service_calls >= 2

\* the transcript ends with a response that carries no tool call: a response
\* of an iteration after the first (in the first iteration the corrective
\* instruction follows it)
LaterResponseWithoutCall ==
    /\ messages # <<>>
    /\ messages[Len(messages)].role = "assistant"
    /\ messages[Len(messages)].tool_calls = <<>>

\* C20 as claimed: a response without tool call on a later turn ends the
\* session at once, with no further service call and no verification, and
\* fix_code returns the candidate submitted last, whatever its length or
\* verdict, without raising.
C20_Original ==
    LaterResponseWithoutCall =>
        /\ Done /\ outcome = "CONCLUDED" /\ escaped = ""
        /\ LET k == LastSubmission(Len(trail) + 1) IN
           k # 0 => returned = Some(trail[k].code)

\* C20 as amended: a response without tool call on a later turn ends the
\* session at once, with no further service call and no verification, and
\* fix_code returns without raising: the candidate submitted last when it is
\* longer than 20 characters, and the buggy code when it is not or when no
\* candidate was submitted.
C20_ConcludesWithLastSubmission ==
    LaterResponseWithoutCall =>
        /\ Done /\ outcome = "CONCLUDED" /\ escaped = ""
        /\ LET k == LastSubmission(Len(trail) + 1) IN
           returned = IF k # 0 /\ len(trail[k].code) > MinReturnLength
                      THEN Some(trail[k].code) ELSE Some(buggy_code)

C20_Witness ==
    /\ LaterResponseWithoutCall /\ Done /\ outcome = "CONCLUDED"
    /\ iteration_count >= 1
    /\ trail # <<>>
    /\ ~ IsAccepted(trail[Len(trail)])
    /\ returned = Some(trail[Len(trail)].code)
    /\ returned # Some(buggy_code)

\* the credential the next service call is sent with: the one dispensed last
CredentialInUse(handed) == handed[Len(handed)].client

\* the wait after a failed service call is over and the same request is
\* ready to be attempted again
FailedAttempt ==
    /\ pc \in {"api_sleep", "retry_sleep"} /\ pc' = "request"
    /\ iteration_count' = iteration_count

\* C21: within one request, every attempt after a failed one is sent with
\* the next credential of the rotator: with more than one credential no two
\* consecutive attempts of the request use the same one.
C21_RotatesOnEachAttempt ==
    [][(FailedAttempt /\ Len(clients) > 1) =>
          CredentialInUse(dispensed') # CredentialInUse(dispensed)]_vars

\* a request is about to be sent with the temperature held in `temperature`
Requesting == pc = "request"

\* C22 as claimed: the temperature of every request is high (0.7) in early
\* iterations, low (0.3) once consecutive_failures has reached 3, and middle
\* (0.5) otherwise; every request issued while consecutive_failures >= 3
\* uses the low value.
C22_Original ==
    Requesting =>
        /\ temperature \in {3, 5, 7}
        /\ consecutive_failures >= StuckThreshold => temperature = 3

\* C22 as amended: the temperature of every request is high (0.7) in the
\* first three iterations whatever consecutive_failures is; from the fourth
\* iteration on it is low (0.3) when consecutive_failures >= 3 and middle
\* (0.5) otherwise.
C22_TemperatureSchedule ==
    Requesting =>
        /\ iteration_count < EarlyIterations => temperature = 7
        /\ (iteration_count >= EarlyIterations
            /\ consecutive_failures >= StuckThreshold) => temperature = 3
        /\ (iteration_count >= EarlyIterations
            /\ consecutive_failures < StuckThreshold) => temperature = 5

C22_Witness ==
    /\ Requesting
    /\ iteration_count >= EarlyIterations
    /\ consecutive_failures >= StuckThreshold
    /\ temperature = 3

\* the submissions of the session so far whose verdict was not accepted
Rejected == {k \in 1..Len(trail) : trail[k].verdict # None /\ ~ trail[k].verdict.success}

\* C23: consecutive_failures is 0 at session start and counts exactly the
\* run_code invocations whose verdict was not accepted, those stopped by the
\* duplicate guard or carrying no code included; nothing else changes it and
\* it never decreases during the session.
C23_FailuresCounted ==
    /\ (pc \in {"request", "api_sleep", "retry_sleep", "tool_call", "done", "hung"}) =>
           consecutive_failures = Cardinality(Rejected)
    /\ (pc = "request" /\ trail = <<>>) => consecutive_failures = 0

C23_Witness ==
    /\ Done
    /\ consecutive_failures = 3
    /\ \E k \in Rejected : IsDuplicate(trail[k])
    /\ \E k \in Rejected : trail[k].code = <<>>

\* the number of entries of the log with the given action tag
RECURSIVE Logged(_, _)
Logged(log, action) ==
    IF log = <<>> THEN 0
    ELSE (IF Head(log).action = action THEN 1 ELSE 0) + Logged(Tail(log), action)

\* C24: _previous_code is cleared when a session starts and kept between the
\* iterations of the session: the first submission of a session is never
\* reported as a duplicate, a later submission equal to the one before it
\* is, and every verdict is computed from the assertion list of the current
\* session.
C24_PreviousCodePerSession ==
    /\ trail # <<>> => ~ IsDuplicate(trail[1])
    /\ \A k \in 2..Len(trail) :
          (strip(trail[k].code) = strip(trail[k - 1].code)) <=> IsDuplicate(trail[k])
    /\ \A k \in 1..Len(trail) :
          trail[k].executed => TotalOf(trail[k].verdict) = Len(g_test_cases)
    /\ pc \in {"request", "tool_call"} => g_observer

\* the second session's first submission is the candidate the first session
\* submitted last (the first session executed one candidate, which failed,
\* and the only candidates that fail there are MINUS with or without a
\* trailing newline), and it is executed against the second task's list
C24_Witness ==
    /\ session_no = 2
    /\ Len(trail) = 1
    /\ trail[1].code = <<MINUS>>
    /\ trail[1].executed
    /\ g_test_cases = <<T3>>
    /\ Logged(logs, "TESTS_FAILED") = 2
    /\ Logged(logs, "ALL_PASS") = 0
    /\ Logged(logs, "TOOL_EXECUTE") = 2

\* s is a prefix of t
IsPrefix(s, t) == Len(s) <= Len(t) /\ SubSeq(t, 1, Len(s)) = s

\* the positions of the run_code invocations of a response, in order
RECURSIVE Invocations(_, _)
Invocations(tool_calls, i) ==
    IF i > Len(tool_calls) THEN <<>>
    ELSE (IF tool_calls[i].name = "run_code" THEN <<i>> ELSE <<>>)
         \o Invocations(tool_calls, i + 1)

\* the tool messages that follow position i of the transcript directly
RECURSIVE ResultsAfter(_, _)
ResultsAfter(msgs, i) ==
    IF i < Len(msgs) /\ msgs[i + 1].role = "tool"
    THEN <<msgs[i + 1]>> \o ResultsAfter(msgs, i + 1) ELSE <<>>

\* the verdicts of the session in the order they were returned
RECURSIVE Verdicts(_)
Verdicts(entries) ==
    IF entries = <<>> THEN <<>>
    ELSE LET first == Head(entries).verdict
         IN  (IF first # None THEN <<first>> ELSE <<>>) \o Verdicts(Tail(entries))

RECURSIVE ToolMessages(_)
ToolMessages(msgs) ==
    IF msgs = <<>> THEN <<>>
    ELSE (IF Head(msgs).role = "tool" THEN <<Head(msgs)>> ELSE <<>>)
         \o ToolMessages(Tail(msgs))

\* the transcript as it has to be when a request is sent with it
Ordered(msgs, entries) ==
    /\ Len(msgs) >= 2 /\ msgs[1].role = "system" /\ msgs[2].role = "user"
    /\ \A i \in 1..Len(msgs) :
          msgs[i].role = "assistant" =>
              LET calls   == Invocations(msgs[i].tool_calls, 1)
                  answers == ResultsAfter(msgs, i)
              IN  /\ Len(answers) = Len(calls)
                  /\ \A j \in 1..Len(calls) : answers[j].tool_call_id = calls[j]
    /\ LET answers == ToolMessages(msgs) IN
       /\ Len(answers) = Len(Verdicts(entries))
       /\ \A j \in 1..Len(answers) :
             answers[j].content = json_dumps(Verdicts(entries)[j])

\* C25: the transcript is append-only and ordered: within a session every
\* step leaves the transcript it found as a prefix of the new one, and the
\* transcript a request is sent with starts with the system and the user
\* instruction and holds, after every response, one tool message per
\* run_code invocation of that response, in invocation order, each with the
\* serialized verdict of that invocation.
C25_TranscriptAppendOnly ==
    [][/\ pc # "idle" => IsPrefix(messages, messages')
       /\ pc' = "request" => Ordered(messages', trail')]_vars

\* a request is sent after a response with two invocations, a duplicate
\* verdict and a syntax-error verdict
C25_Witness ==
    /\ pc = "request"
    /\ \E i \in 1..Len(messages) :
          messages[i].role = "assistant" /\ Len(ResultsAfter(messages, i)) = 2
    /\ \E k \in 1..Len(trail) : IsDuplicate(trail[k])
    /\ \E k \in 1..Len(trail) :
          trail[k].verdict # None /\ trail[k].verdict.error.kind = "Syntax Error"

\* the positions of the entries of level ERROR, in order
ErrorPositions(entries) == {k \in 1..Len(entries) : entries[k].level = "ERROR"}

\* C26: over any sequence of start_session, log and get_summary calls the
\* log only grows: a call appends at most one entry and leaves the entries
\* already there in place, get_summary appends none, and the summary it
\* returns counts all entries and lists exactly the ERROR entries in their
\* order.
C26_LogOnlyGrows ==
    [][/\ IsPrefix(logs, logs')
       /\ Len(logs') <= Len(logs) + 1
       /\ summary' # summary =>
             /\ logs' = logs
             /\ summary'[1].total_logs = Len(logs)
             /\ Len(summary'[1].errors) = Cardinality(ErrorPositions(logs))
             /\ \A i, j \in 1..Len(summary'[1].errors) :
                   i < j => \E k, l \in ErrorPositions(logs) :
                               /\ k < l
                               /\ logs[k] = summary'[1].errors[i]
                               /\ logs[l] = summary'[1].errors[j]
             /\ \A i \in 1..Len(summary'[1].errors) :
                   summary'[1].errors[i].level = "ERROR"]_vars

\* a summary taken after a second start_session, with two ERROR entries and
\* entries of both sessions in the log
C26_Witness ==
    /\ summary # None
    /\ summary[1].total_logs = Len(logs)
    /\ Len(summary[1].errors) = 2
    /\ Logged(logs, "SESSION_START") = 2
    /\ logs[1].action # "SESSION_START"
    /\ logs[Len(logs)].action # "SESSION_START"

\* a step of the session state machine: a request attempt is answered or
\* fails, a submission is handled, or fix_code is left
SessionTransition ==
    \/ service_calls' = service_calls + 1
    \/ Len(trail') = Len(trail) + 1
    \/ pc # "done" /\ pc' = "done"

\* C27: every transition of the session appends at least one entry to the
\* log: each request attempt, each response without tool call, each
\* submission outcome and each terminal outcome.
C27_EveryTransitionLogged ==
    [][SessionTransition => Len(logs') > Len(logs)]_vars

\* run_code_tool has been called in this step: the entry it left on the trail
Called == Len(trail') = Len(trail) + 1
Latest == trail'[Len(trail')]

\* run_code_tool is called on the freshly imported module, where no
\* observer is installed
DirectCall == pc = "tool"

\* what run_code_tool makes of the candidate, the previous submission and
\* the assertion list
Answer(code) == run_code_tool(code, g_previous_code, g_test_cases)

\* the entry of the other thread enters the log in this step
Landed == Unheard(logs) /\ ~ Unheard(logs')

\* and fix_code does nothing in this step
LoggedElsewhere == Landed /\ UNCHANGED besides_observer

WithoutNote(entries) == SelectSeq(entries, LAMBDA entry : entry.action # "NOTE")

\* the tool call fix_code is about to handle is a run_code call that reaches
\* run_code_tool
RunsCode ==
    /\ pc = "tool_call"
    /\ LET tool_call == response[1].tool_calls[tc_index]
           parsed    == json_loads(tool_call.arguments)
       IN  /\ parsed.raises = ""
           /\ ~ keys_or_get_raises(verbose, tool_call, parsed)
           /\ tool_call.name = "run_code"

SubmittedArgs == json_loads(response[1].tool_calls[tc_index].arguments).value

\* what run_code_tool does with the run_code call about to be handled
Pending ==
    IF RunsCode THEN Answer(args_get(SubmittedArgs, "code", <<>>)) ELSE [raises |-> ""]

\* the step fix_code takes next, `ran` being what run_code_tool does in it
NextWith(ran) ==
    IF RunsCode
    THEN /\ after_run_code_tool(
                args_get(SubmittedArgs, "code", <<>>),
                IF truthy(SubmittedArgs.code) THEN SubmittedArgs.code ELSE final_code,
                ran)
         /\ UNCHANGED <<concurrent, summary, results, session_inputs, g_observer,
                        tool_was_called, service_calls, glitches, outage>>
    ELSE Next

Positions == {"request", "api_sleep", "retry_sleep", "tool_call", "done", "hung"}

Outcomes == {"", "SUCCESS", "EXHAUSTED", "CONCLUDED", "ABORTED", "RAISED"}

\* before and after the step fix_code can go on in the same ways: to the
\* same positions with the same numbers of service calls, to the same
\* outcomes and exceptions, returning the same values, with the same verdict
\* and the same _previous_code
SameNext(ran, returns) ==
    /\ \A p \in Positions, n \in {service_calls, service_calls + 1} :
          (ENABLED (NextWith(ran) /\ pc' = p /\ service_calls' = n))
              = (ENABLED (NextWith(ran) /\ pc' = p /\ service_calls' = n))'
    /\ \A how \in Outcomes :
          (ENABLED (NextWith(ran) /\ outcome' = how))
              = (ENABLED (NextWith(ran) /\ outcome' = how))'
    /\ \A escapes \in {"", "AttributeError", "JSONDecodeError", ran.raises} :
          (ENABLED (NextWith(ran) /\ escaped' = escapes))
              = (ENABLED (NextWith(ran) /\ escaped' = escapes))'
    /\ \A value \in returns :
          (ENABLED (NextWith(ran) /\ returned' = value))
              = (ENABLED (NextWith(ran) /\ returned' = value))'
    /\ \A previous_code \in {g_previous_code, None} \cup
                            (IF RunsCode THEN {ran.previous_code} ELSE {}),
          verdict \in {tool_result} \cup
                      (IF RunsCode /\ ran.raises = "" THEN {Some(ran.verdict)} ELSE {}) :
          (ENABLED (NextWith(ran) /\ g_previous_code' = previous_code
                                  /\ tool_result' = verdict))
              = (ENABLED (NextWith(ran) /\ g_previous_code' = previous_code
                                        /\ tool_result' = verdict))'

\* C28: the log is a pure observer. For the same candidate, assertion list
\* and previous submission run_code_tool returns the same verdict and updates
\* _previous_code the same way without an observer (a direct call, which
\* logs nothing) and with one (a call from fix_code); and an entry that
\* another thread writes to the log changes nothing but the log: when it
\* comes during a step of fix_code, the same step can be taken without it,
\* with the same service calls, verdict, _previous_code, outcome and
\* returned value; when it comes between two steps, fix_code can go on after
\* it as before it.
C28_PureObserver ==
    [][/\ DirectCall =>
             /\ \E code \in Texts :
                   /\ g_previous_code' = Answer(code).previous_code
                   /\ tool_result' = IF Answer(code).raises = ""
                                     THEN Some(Answer(code).verdict) ELSE None
             /\ logs' = logs
       /\ Called =>
             /\ Latest.verdict = Answer(Latest.code).verdict
             /\ g_previous_code' = Answer(Latest.code).previous_code
             /\ IsPrefix(logs, logs')
       /\ (Landed /\ ~ LoggedElsewhere) =>
             \E ran \in {Pending}, after \in {besides_observer'},
                entries \in {WithoutNote(logs')} :
                   ENABLED (NextWith(ran) /\ besides_observer' = after
                                          /\ logs' = entries)
       /\ LoggedElsewhere =>
             \E ran \in {Pending} :
                   SameNext(ran, {None, Some(buggy_code), final_code} \cup
                                 (IF RunsCode
                                  THEN {Some(args_get(SubmittedArgs, "code", <<>>))}
                                  ELSE {}))]_vars

\* a session that returned a value after two service calls and two
\* submissions, with the entry of the other thread written while
\* run_code_tool was at work on an executed submission: after its
\* TOOL_EXECUTE entry and before the entry of the outcome
C28_Witness ==
    /\ Done /\ escaped = "" /\ returned # None
    /\ service_calls >= 2 /\ Len(trail) >= 2
    /\ \E k \in 1..Len(trail) : trail[k].executed
    /\ \E j \in 2..(Len(logs) - 1) :
          /\ logs[j].action = "NOTE"
          /\ logs[j - 1].action = "TOOL_EXECUTE"
          /\ logs[j + 1].action \in {"TESTS_FAILED", "ALL_PASS"}

\* the candidate binds no function it defines: it holds no function
\* definition, or the first one ast.walk meets is not a name it binds
BindsNoFunction(code) ==
    first_function_def(code) = None
        \/ first_function_def(code)[1] \notin namespace_names(code)

\* C29: a candidate that executes without fault but binds no function
\* definition fails every assertion of a non-empty list with the diagnostic
\* 'Function not found in code': nothing passes, there is one failure entry
\* per assertion in order, and no assertion is evaluated.
C29_FunctionNotFound ==
    (/\ exec_result # None /\ exec_result[1].raises = ""
     /\ exec_result[1].result.success
     /\ g_test_cases # <<>>
     /\ g_previous_code # None /\ BindsNoFunction(g_previous_code[1])) =>
        LET result == exec_result[1].result IN
        /\ result.tests_passed = 0
        /\ Len(result.failed_tests) = Len(g_test_cases)
        /\ \A i \in 1..Len(result.failed_tests) :
              /\ result.failed_tests[i].test_number = i
              /\ result.failed_tests[i].test = g_test_cases[i]
              /\ result.failed_tests[i].error = "Function not found in code"
              /\ result.failed_tests[i].type = "ExecutionError"

\* C30: with no assertions run_code_tool accepts exactly the candidates
\* whose execution raises no fault, whether or not they define a function.
C30_NoAssertionsRunIsEnough ==
    (/\ g_test_cases = <<>>
     /\ exec_result # None /\ exec_result[1].raises = ""
     /\ tool_result # None
     /\ g_previous_code # None) =>
        (tool_result[1].success <=> exec_code(g_previous_code[1]) = "ok")


\* the number of problems evaluate_agent is through with
Evaluated ==
    IF pc = "idle" \/ results.at # "running" THEN session_no ELSE session_no - 1

\* C31: a problem is counted as passed iff verifying again what fix_code
\* returned gives tests_total > 0, a fault-free execution and tests_passed =
\* tests_total; an exception raised by fix_code counts as a failure and does
\* not stop the evaluation; after k problems passed + failed = k.
C31_EveryProblemCounted ==
    /\ results.at = "running"
    /\ results.passed + results.failed = Evaluated
    /\ Len(results.details) = Evaluated
    /\ results.passed = Cardinality({k \in 1..Len(results.details) : results.details[k].success})
    /\ \A k \in 1..Len(results.details) :
          LET d == results.details[k] IN
          /\ d.raised # "" => ~ d.success
          /\ d.raised = "" =>
                   LET r == execute_code(d.fixed_code[1], d.task_id) IN
                   d.success <=> /\ r.raises = ""
                                 /\ r.result.tests_total > 0
                                 /\ r.result.success
                                 /\ r.result.tests_passed = r.result.tests_total


\* the i-th assertion of the list passes when it is the only assertion a
\* new executor runs on the candidate
PassesAlone(code, test_cases, i) ==
    LET alone == execute_code(code, <<test_cases[i]>>) IN
    alone.raises = "" /\ alone.result.tests_passed = 1

\* C32: every verification starts from a namespace of its own: what an
\* earlier candidate or an earlier assertion bound is not visible, so a
\* candidate passes exactly the assertions it passes when each of them is
\* run alone on it by a new executor, whatever was verified before.
C32_FreshNamespace ==
    \A k \in 1..Len(trail) :
       (trail[k].executed /\ trail[k].verdict # None /\ g_test_cases # <<>>) =>
          PassedOf(trail[k].verdict) =
             Cardinality({i \in 1..Len(g_test_cases) :
                             PassesAlone(trail[k].code, g_test_cases, i)})

\* a candidate without add is verified after one that bound add and passed
\* an assertion with it, and an assertion reads x after another one bound it
C32_Witness ==
    /\ Len(trail) = 2 /\ g_test_cases = <<T2, TSET, TGET>>
    /\ "add" \in namespace_names(trail[1].code) /\ trail[1].executed
    /\ PassedOf(trail[1].verdict) = 2
    /\ "add" \notin namespace_names(trail[2].code) /\ trail[2].executed
    /\ first_function_def(trail[2].code) # None
    /\ PassedOf(trail[2].verdict) = 1


\* the assertion splits around one '==' into a call of the candidate's add
\* and a literal, and both sides evaluate without fault in the namespace the
\* candidate left
BothSidesEvaluate(code, test) ==
    /\ has_eq(test) /\ Len(split_eq(test)) = 2
    /\ test \in {T1, T2, T3}
    /\ "add" \in namespace_names(code)

\* C33: for an assertion that fails with AssertionError, splits around a
\* single '==' and has two sides that evaluate without fault, the failure
\* detail reports the two values (a value None of the call included) in its
\* text, and the diagnostic of the verdict shows them as Expected/Got.
C33_ActualExpectedReported ==
    (/\ exec_result # None /\ exec_result[1].raises = ""
     /\ tool_result # None /\ g_previous_code # None) =>
        LET failed_tests == exec_result[1].result.failed_tests IN
        \A k \in 1..Len(failed_tests) :
           (/\ failed_tests[k].type = "AssertionError"
            /\ BothSidesEvaluate(g_previous_code[1], failed_tests[k].test)) =>
               /\ failed_tests[k].actual =
                     eval_call(g_previous_code[1], failed_tests[k].test)
               /\ failed_tests[k].expected = Some(test_expected(failed_tests[k].test))
               /\ failed_tests[k].error = "Expected {expected_value}, but got {actual_value}"
               /\ k <= ShownInVerdict =>
                     tool_result[1].error.details[k].shows = "Expected/Got"


\* the test numbers of a list of passed or failed entries
TestNumbers(entries) == {entries[k].test_number : k \in 1..Len(entries)}

\* C34: when execute_code has run the candidate without fault on a non-empty
\* assertion list and returns, every assertion is classified exactly once:
\* tests_passed is the number of passed entries, tests_passed plus the number
\* of failed entries is tests_total, the number of assertions; passed and
\* failed entries have disjoint test numbers, the failed ones in increasing
\* order; and run_code_tool's failed_count is tests_total - tests_passed.
C34_ClassifiedOnce ==
    (/\ g_test_cases # <<>>
     /\ exec_result # None /\ exec_result[1].raises = ""
     /\ exec_result[1].result.success) =>
        LET result == exec_result[1].result
            passed_tests == result.passed_tests
            failed_tests == result.failed_tests
        IN  /\ result.tests_passed = Len(passed_tests)
            /\ result.tests_passed + Len(failed_tests) = result.tests_total
            /\ result.tests_total = Len(g_test_cases)
            /\ Cardinality(TestNumbers(passed_tests)) = Len(passed_tests)
            /\ Cardinality(TestNumbers(failed_tests)) = Len(failed_tests)
            /\ TestNumbers(passed_tests) \cap TestNumbers(failed_tests) = {}
            /\ TestNumbers(passed_tests) \cup TestNumbers(failed_tests)
                  = 1..Len(g_test_cases)
            /\ \A k, l \in 1..Len(failed_tests) :
                  k < l => failed_tests[k].test_number < failed_tests[l].test_number
            /\ \A k \in 1..Len(failed_tests) :
                  failed_tests[k].test = g_test_cases[failed_tests[k].test_number]
            /\ tool_result # None
            /\ "failed_count" \in DOMAIN tool_result[1] =>
                  tool_result[1].failed_count = result.tests_total - result.tests_passed

\* the first of two assertions failed and the second passed
C34_Witness ==
    /\ Len(g_test_cases) = 2
    /\ exec_result # None /\ exec_result[1].raises = ""
    /\ TestNumbers(exec_result[1].result.failed_tests) = {1}
    /\ TestNumbers(exec_result[1].result.passed_tests) = {2}
    /\ tool_result # None /\ "failed_count" \in DOMAIN tool_result[1]
    /\ tool_result[1].failed_count = 1


\* C35: what fix_code returns is the original code or the code of the most
\* recent run_code invocation that carried code (verified, duplicate or
\* invalid syntax): that code after an accepted verdict; without an accepted
\* verdict that code only when it is longer than 20 characters, and the
\* original code otherwise.
C35_ReturnsOriginalOrLatest ==
    (Done /\ escaped = "") =>
        LET last == LastSubmission(Len(trail) + 1) IN
        /\ returned # None
        /\ returned = Some(buggy_code) \/ (last # 0 /\ returned = Some(trail[last].code))
        /\ outcome = "SUCCESS" =>
              /\ last = Len(trail) /\ IsAccepted(trail[last])
              /\ returned = Some(trail[last].code)
        /\ (outcome # "SUCCESS" /\ last # 0) =>
              (returned = Some(trail[last].code)
                  <=> (len(trail[last].code) > MinReturnLength
                         \/ trail[last].code = buggy_code))
        /\ (outcome # "SUCCESS" /\ last = 0) => returned = Some(buggy_code)

\* the session ended without an accepted verdict and returns its latest
\* submission, a candidate with invalid syntax submitted after another one
C35_Witness ==
    /\ Done /\ escaped = "" /\ outcome # "SUCCESS"
    /\ Len(trail) >= 2 /\ trail[Len(trail)].code # <<>>
    /\ ~ compile_ok(trail[Len(trail)].code)
    /\ trail[Len(trail)].code # buggy_code
    /\ returned = Some(trail[Len(trail)].code)


\* C36: a run_code_tool call with empty code, or with code equal after
\* stripping to _previous_code, returns a verdict that is not accepted, does
\* not invoke the executor and leaves _previous_code unchanged; every other
\* call sets _previous_code to the submitted code, also when its syntax is
\* invalid and the executor is not invoked, so that submitting it again gets
\* the duplicate verdict.
C36_PreviousCodeFrame ==
    [][Called =>
         IF Latest.code = <<>>
            \/ (g_previous_code # None /\ strip(Latest.code) = strip(g_previous_code[1]))
         THEN /\ Latest.verdict # None /\ ~ Latest.verdict.success
              /\ ~ Latest.executed /\ executions' = executions
              /\ g_previous_code' = g_previous_code
              /\ Latest.code # <<>> => IsDuplicate(Latest)
         ELSE /\ g_previous_code' = Some(Latest.code)
              /\ ~ compile_ok(Latest.code) =>
                    /\ ~ Latest.executed /\ executions' = executions
                    /\ Latest.verdict # None /\ ~ Latest.verdict.success
                    /\ ~ IsDuplicate(Latest)
                    /\ "duplicate_submission" \in DOMAIN
                          run_code_tool(Latest.code, g_previous_code', g_test_cases).verdict
    ]_vars

\* a candidate with invalid syntax was submitted twice in a row: the second
\* submission got the duplicate verdict and neither was executed
C36_Witness ==
    \E k \in 2..Len(trail) :
        /\ trail[k - 1].code # <<>> /\ ~ compile_ok(trail[k - 1].code)
        /\ ~ IsDuplicate(trail[k - 1]) /\ ~ trail[k - 1].executed
        /\ strip(trail[k].code) = strip(trail[k - 1].code)
        /\ IsDuplicate(trail[k]) /\ ~ trail[k].executed
        /\ g_previous_code = Some(trail[k - 1].code)


\* the run_code_tool calls of the session that returned, in order
Answered == SelectSeq(trail, LAMBDA entry : entry.verdict # None)

\* the number of tool messages in front of position i of the transcript
ToolsBefore(msgs, i) == Len(ToolMessages(SubSeq(msgs, 1, i)))

\* C37: the run_code invocations of one response are handled in the order of
\* the response within one iteration: each one handled is verified, counted
\* and answered by a tool message, none after the first accepted one, with
\* which fix_code returns; the iteration is the number of responses before.
C37_InOrderUntilAccepted ==
    /\ Len(ToolMessages(messages)) = Len(Answered)
    /\ \A i \in 1..Len(messages) :
          messages[i].role = "assistant" =>
             LET calls   == Invocations(messages[i].tool_calls, 1)
                 answers == ResultsAfter(messages, i)
                 first   == ToolsBefore(messages, i)
             IN  /\ Len(answers) <= Len(calls)
                 /\ \A j \in 1..Len(answers) :
                       LET entry == Answered[first + j] IN
                       /\ answers[j].tool_call_id = calls[j]
                       /\ answers[j].content = json_dumps(entry.verdict)
                       /\ entry.code = args_get(messages[i].tool_calls[calls[j]].arguments,
                                                "code", <<>>)
                       /\ entry.iteration = Responses(SubSeq(messages, 1, i)) - 1
                       /\ j < Len(answers) => ~ entry.verdict.success
                       /\ entry.verdict.success =>
                             /\ Done /\ outcome = "SUCCESS"
                             /\ i + j = Len(messages)
                 /\ Len(answers) < Len(calls) =>
                       \/ /\ Len(answers) > 0
                          /\ Answered[first + Len(answers)].verdict.success
                       \/ /\ i + Len(answers) = Len(messages)
                          /\ (pc \in {"tool_call", "hung"} \/ escaped # "")
    /\ (pc \in {"request", "api_sleep", "retry_sleep", "tool_call", "done", "hung"}) =>
          consecutive_failures = Cardinality({k \in 1..Len(Answered) :
                                                 ~ Answered[k].verdict.success})

\* a response carried two run_code invocations: the first was verified,
\* answered and counted as a failure, the second was accepted in the same
\* iteration and fix_code returned its code
C37_Witness ==
    /\ Done /\ outcome = "SUCCESS" /\ Len(messages) >= 3 /\ Len(trail) >= 2
    /\ messages[Len(messages) - 2].role = "assistant"
    /\ Len(Invocations(messages[Len(messages) - 2].tool_calls, 1)) = 2
    /\ Len(ResultsAfter(messages, Len(messages) - 2)) = 2
    /\ ~ trail[Len(trail) - 1].verdict.success /\ trail[Len(trail) - 1].executed
    /\ trail[Len(trail)].verdict.success
    /\ trail[Len(trail) - 1].iteration = trail[Len(trail)].iteration
    /\ consecutive_failures >= 1
    /\ returned = Some(trail[Len(trail)].code)


\* the step handles an invocation of the response whose name is not run_code
OtherToolHandled ==
    /\ pc = "tool_call"
    /\ response[1].tool_calls[tc_index].name # "run_code"
    /\ <<pc, tc_index, iteration_count, escaped>> #
          <<pc', tc_index', iteration_count', escaped'>>

\* C38: an invocation whose name is not run_code is ignored: no verification,
\* no tool message, consecutive_failures, final_code and _previous_code
\* unchanged, no exception; the response counts as one that called a tool (no
\* corrective instruction, no end of the loop for want of a tool call), and
\* the loop goes on with the next invocation or the next iteration.
C38_OtherToolIgnored ==
    [][OtherToolHandled =>
          /\ escaped' = ""
          /\ UNCHANGED <<trail, executions, exec_result, messages,
                         consecutive_failures, final_code, g_previous_code>>
          /\ tool_was_called
          /\ \/ pc' = "tool_call" /\ tc_index' = tc_index + 1
             \/ pc' = "request" /\ iteration_count' = iteration_count + 1
             \/ pc' = "done" /\ outcome' = "EXHAUSTED"
                /\ iteration_count + 1 = max_iterations
    ]_vars


\* fix_code has been entered and its first request prepared: the variable
\* temperature holds the temperature of the latest request of the session
InSession == pc \notin {"idle", "unbuilt", "no_agent", "tool", "observer"}

\* C39: within a session the temperature never rises from one request to
\* the next: the requests use 0.7, then 0.5 and/or 0.3, and once a request
\* has used 0.3 every later request of the session uses 0.3.
C39_TemperatureNeverRises ==
    [][(InSession /\ temperature' # temperature) =>
          /\ Requesting'
          /\ temperature' < temperature
          /\ temperature \in {7, 5} /\ temperature' \in {5, 3}
    ]_vars

\* after a first response without tool call and one rejected submission in
\* each of the next three iterations, the request of the fourth iteration
\* used 0.5 and that of the fifth uses 0.3
C39_Witness ==
    /\ Requesting /\ temperature = 3 /\ iteration_count = 4
    /\ CorrectiveTurn
    /\ Len(trail) = 3 /\ \A k \in 1..3 : trail[k].iteration = k
    /\ consecutive_failures = 3

====
